---------------------------- MODULE Spec2Model ----------------------------
(***************************************************************************)
(* A model of gURL's extraction engine (goScanner.ts) and request          *)
(* synthesizer (curlGenerator.ts).                                         *)
(*                                                                         *)
(* Text is modelled as a sequence of one-character strings, so that the    *)
(* string operations of the code (endsWith, startsWith, slice, replace,    *)
(* split) are computed character by character.  A source file is modelled  *)
(* by the sequence of matches the code's regular expressions find in it,   *)
(* in text order.                                                          *)
(***************************************************************************)
EXTENDS Integers, Sequences, FiniteSets, TLC

VARIABLES
    gText,      \* buildGroupPrefixMap: the matches of groupRegex in the text
    gRoots,     \* buildGroupPrefixMap: the root router variables of the text
    gMap,       \* buildGroupPrefixMap: map
    gUpdated,   \* buildGroupPrefixMap: updated
    gIdx,       \* buildGroupPrefixMap: the match the inner loop is at
    gPc         \* buildGroupPrefixMap: "loop", "scan", "done", or "capped"

groupVars == <<gText, gRoots, gMap, gUpdated, gIdx, gPc>>

VARIABLES
    rFiles,     \* route extraction: the documents of the workspace
    rOp,        \* route extraction: the operation that ran
    rKnown,     \* route extraction: the handler-name set the operation used
    rRoutes,    \* route extraction: the RouteRegistrations it returned
    rPc         \* route extraction: "ready" or "done"

routeVars == <<rFiles, rOp, rKnown, rRoutes, rPc>>

VARIABLES
    sText,      \* struct fields: the scanned text
    sType,      \* struct fields: the type name asked for
    sFields,    \* struct fields: the list extractStructFieldsFromText returned
    sPc         \* struct fields: "ready" or "done"

structVars == <<sText, sType, sFields, sPc>>

VARIABLES
    pBody,      \* inferParamsFromBody: the calls of the handler body
    pCtx,       \* inferParamsFromBody: ctxVar
    pText,      \* inferParamsFromBody: fullText
    pParams,    \* inferParamsFromBody: the HandlerParams returned
    pPc         \* inferParamsFromBody: "ready" or "done"

paramVars == <<pBody, pCtx, pText, pParams, pPc>>

VARIABLES
    qIn,        \* shellQuote: s
    qOut,       \* shellQuote: the string returned
    qPc         \* shellQuote: "ready" or "done"

quoteVars == <<qIn, qOut, qPc>>

VARIABLES
    cHandler,   \* generateCurl: handler
    cRoute,     \* generateCurl: route
    cOpts,      \* generateCurl: opts
    cOut,       \* generateCurl: the command returned
    cPc         \* generateCurl: "ready" or "done"

curlVars == <<cHandler, cRoute, cOpts, cOut, cPc>>

VARIABLES
    bText,       \* findMatchingBrace: text
    bOpen,       \* findMatchingBrace: openIndex
    bEnd,        \* findMatchingBrace: the index returned
    bBody,       \* findHandlersInText: bodyText of a shape-1 handler
    bPc          \* findMatchingBrace: "ready" or "done"

braceVars == <<bText, bOpen, bEnd, bBody, bPc>>

VARIABLES
    hDoc,        \* findHandlersInText: doc
    hHandlers,   \* findHandlersInText: the handlers returned
    hPc          \* findHandlersInText: "ready" or "done"

handlerVars == <<hDoc, hHandlers, hPc>>

VARIABLES
    lHandlers,   \* linkHandlersToRoutes: handlers
    lRoutes,     \* linkHandlersToRoutes: routes
    lOut,        \* linkHandlersToRoutes: the list returned
    lPc          \* linkHandlersToRoutes: "ready" or "done"

linkVars == <<lHandlers, lRoutes, lOut, lPc>>

VARIABLES
    uDocs,       \* detectBaseUrlFromWorkspace: the texts of goFiles, in order
    uResult,     \* detectBaseUrlFromWorkspace: the value returned
    uPc          \* detectBaseUrlFromWorkspace: "ready" or "done"

baseUrlVars == <<uDocs, uResult, uPc>>

VARIABLES
    wCfg,        \* showCurl: the gurl configuration
    wDocs,       \* showCurl: the texts of the Go files of the workspace
    wHandler,    \* showCurl: handler
    wRoute,      \* showCurl: route
    wOpts,       \* showCurl: opts
    wCurl,       \* showCurl: curl
    wPc          \* showCurl: "ready", "options" or "done"

showVars == <<wCfg, wDocs, wHandler, wRoute, wOpts, wCurl, wPc>>

VARIABLES
    eCfg,        \* gurl.generateForWorkspace: the gurl configuration
    eDocs,       \* gurl.generateForWorkspace: the Go files of the workspace
    eHandlers,   \* gurl.generateForWorkspace: handlers
    eRoutes,     \* gurl.generateForWorkspace: routes
    eLinked,     \* gurl.generateForWorkspace: linked
    ePick,       \* gurl.generateForWorkspace: pick.handler and routePick.route
    eCurl,       \* gurl.generateForWorkspace: the command shown
    ePc          \* gurl.generateForWorkspace: position

commandVars == <<eCfg, eDocs, eHandlers, eRoutes, eLinked, ePick, eCurl, ePc>>

VARIABLES
    vType,       \* goType: the declared type text
    vField,      \* fieldName
    vOut,        \* the value sampleValueForGoType returned
    vPc          \* "idle", "ready" or "done"

sampleVars == <<vType, vField, vOut, vPc>>

VARIABLES
    oPanel,      \* curlPanel: the panel it refers to, NoPanel when undefined
    oPanels,     \* the webview panels created so far
    oCalls,      \* the showCurlOverlay invocations: "awaiting" or "done", with a route or not
    oPc          \* "idle" or "active"

overlayVars == <<oPanel, oPanels, oCalls, oPc>>

vars == <<groupVars, routeVars, structVars, paramVars, quoteVars, curlVars, braceVars, handlerVars, linkVars, baseUrlVars, showVars, commandVars, sampleVars, overlayVars>>

nonGroupVars == <<routeVars, structVars, paramVars, quoteVars, curlVars, braceVars, handlerVars, linkVars, baseUrlVars, showVars, commandVars, sampleVars, overlayVars>>

nonRouteVars == <<groupVars, structVars, paramVars, quoteVars, curlVars, braceVars, handlerVars, linkVars, baseUrlVars, showVars, commandVars, sampleVars, overlayVars>>

nonStructVars == <<groupVars, routeVars, paramVars, quoteVars, curlVars, braceVars, handlerVars, linkVars, baseUrlVars, showVars, commandVars, sampleVars, overlayVars>>

nonParamVars == <<groupVars, routeVars, structVars, quoteVars, curlVars, braceVars, handlerVars, linkVars, baseUrlVars, showVars, commandVars, sampleVars, overlayVars>>

nonQuoteVars == <<groupVars, routeVars, structVars, paramVars, curlVars, braceVars, handlerVars, linkVars, baseUrlVars, showVars, commandVars, sampleVars, overlayVars>>

nonCurlVars == <<groupVars, routeVars, structVars, paramVars, quoteVars, braceVars, handlerVars, linkVars, baseUrlVars, showVars, commandVars, sampleVars, overlayVars>>

nonBraceVars == <<groupVars, routeVars, structVars, paramVars, quoteVars, curlVars, handlerVars, linkVars, baseUrlVars, showVars, commandVars, sampleVars, overlayVars>>

nonHandlersVars == <<groupVars, routeVars, structVars, paramVars, quoteVars, curlVars, braceVars, linkVars, baseUrlVars, showVars, commandVars, sampleVars, overlayVars>>

nonLinkVars == <<groupVars, routeVars, structVars, paramVars, quoteVars, curlVars, braceVars, handlerVars, baseUrlVars, showVars, commandVars, sampleVars, overlayVars>>

nonBaseUrlVars == <<groupVars, routeVars, structVars, paramVars, quoteVars, curlVars, braceVars, handlerVars, linkVars, showVars, commandVars, sampleVars, overlayVars>>

nonShowVars == <<groupVars, routeVars, structVars, paramVars, quoteVars, curlVars, braceVars, handlerVars, linkVars, baseUrlVars, commandVars, sampleVars, overlayVars>>

nonCommandVars == <<groupVars, routeVars, structVars, paramVars, quoteVars, curlVars, braceVars, handlerVars, linkVars, baseUrlVars, showVars, sampleVars, overlayVars>>

nonSampleVars == <<groupVars, routeVars, structVars, paramVars, quoteVars, curlVars, braceVars, handlerVars, linkVars, baseUrlVars, showVars, commandVars, overlayVars>>

nonOverlayVars == <<groupVars, routeVars, structVars, paramVars, quoteVars, curlVars, braceVars, handlerVars, linkVars, baseUrlVars, showVars, commandVars, sampleVars>>

\* The variables of the components a specification does not run.
GroupIdle ==
    /\ gText = <<>>
    /\ gRoots = {}
    /\ gMap = <<>>
    /\ gUpdated = FALSE
    /\ gIdx = 0
    /\ gPc = "idle"

RoutesIdle ==
    /\ rFiles = <<>>
    /\ rOp = "none"
    /\ rKnown = {}
    /\ rRoutes = <<>>
    /\ rPc = "idle"

StructIdle ==
    /\ sText = <<>>
    /\ sType = ""
    /\ sFields = <<>>
    /\ sPc = "idle"

ParamsIdle ==
    /\ pBody = <<>>
    /\ pCtx = <<>>
    /\ pText = <<>>
    /\ pParams = <<>>
    /\ pPc = "idle"

QuoteIdle ==
    /\ qIn = <<>>
    /\ qOut = <<>>
    /\ qPc = "idle"

CurlIdle ==
    /\ cHandler = <<>>
    /\ cRoute = <<>>
    /\ cOpts = <<>>
    /\ cOut = <<>>
    /\ cPc = "idle"

BraceIdle ==
    /\ bText = <<>>
    /\ bOpen = 0
    /\ bEnd = 0
    /\ bBody = <<>>
    /\ bPc = "idle"

HandlersIdle ==
    /\ hDoc = <<>>
    /\ hHandlers = <<>>
    /\ hPc = "idle"

LinkIdle ==
    /\ lHandlers = <<>>
    /\ lRoutes = <<>>
    /\ lOut = <<>>
    /\ lPc = "idle"

BaseUrlIdle ==
    /\ uDocs = <<>>
    /\ uResult = <<>>
    /\ uPc = "idle"

ShowIdle ==
    /\ wCfg = <<>>
    /\ wDocs = <<>>
    /\ wHandler = <<>>
    /\ wRoute = <<>>
    /\ wOpts = <<>>
    /\ wCurl = <<>>
    /\ wPc = "idle"

CommandIdle ==
    /\ eCfg = <<>>
    /\ eDocs = <<>>
    /\ eHandlers = <<>>
    /\ eRoutes = <<>>
    /\ eLinked = <<>>
    /\ ePick = <<>>
    /\ eCurl = <<>>
    /\ ePc = "idle"

SampleIdle ==
    /\ vType = <<>>
    /\ vField = <<>>
    /\ vOut = <<>>
    /\ vPc = "idle"

OverlayIdle ==
    /\ oPanel = 0
    /\ oPanels = <<>>
    /\ oCalls = <<>>
    /\ oPc = "idle"

\* ------------------------------------------------------------------------
\* Bounds of the model
\* ------------------------------------------------------------------------

\* Most Group declarations in one source text.
MaxDecls == 2

\* Most passes of the fixed-point loop the operator buildGroupPrefixMap
\* follows; the texts of the route extraction need two.
MaxPasses == 3

\* Most documents in a workspace, and most registration call sites in all
\* of them together.
MaxFiles == 2

MaxRegs == 2

\* Most lines in the body of a struct declaration.
MaxLines == 3

\* Most calls in a handler body.
MaxCalls == 3

\* Longest string given to shellQuote.
MaxQuoteLen == 4

\* Most names in a parameter list of a handler.
MaxNames == 2

\* Longest text given to findMatchingBrace.
MaxBraceLen == 6

\* Most function definitions in the text of a document.
MaxDefs == 3

\* Most handlers, and most routes, given to linkHandlersToRoutes.
MaxLinked == 3

\* Most server-start call sites in the files of a workspace.
MaxStarts == 3

\* Function definitions in a text of heading patterns.
MaxFactories == 2

\* Most pointer, slice and blank prefixes in front of a type text.
MaxDepth == 2

\* Most showCurlOverlay invocations in one behaviour.
MaxShows == 3

\* Longest prefix the fixed-point loop is followed to; a longer one stops
\* the model (gPc = "capped"), it does not stop the code.
MaxPathLen == 9

\* ------------------------------------------------------------------------
\* Strings as sequences of characters
\* ------------------------------------------------------------------------

\* All sequences over S of length at most n.
SeqsUpTo(S, n) == UNION {[1..k -> S] : k \in 0..n}

endsWith(s, ch) == Len(s) > 0 /\ s[Len(s)] = ch

startsWith(s, ch) == Len(s) > 0 /\ s[1] = ch

\* s.slice(0, -1)
dropLast(s) == SubSeq(s, 1, Len(s) - 1)

\* Some two consecutive characters of s are both ch.
HasDouble(s, ch) == \E i \in 1..(Len(s) - 1) : s[i] = ch /\ s[i + 1] = ch

\* ------------------------------------------------------------------------
\* joinPaths and buildGroupPrefixMap
\* ------------------------------------------------------------------------

joinPaths(a, b) ==
    LET left  == IF endsWith(a, "/") THEN dropLast(a) ELSE a
        right == IF startsWith(b, "/") THEN b ELSE <<"/">> \o b
    IN  left \o right

\* map.set(k, v) on a Map modelled as a function on its key set.
MapSet(m, k, v) == [x \in (DOMAIN m) \cup {k} |-> IF x = k THEN v ELSE m[x]]

\* map.get(k), with Undefined for an absent key.
Undefined == <<"undefined">>

MapGet(m, k) == IF k \in DOMAIN m THEN m[k] ELSE Undefined

EmptyMap == [x \in {} |-> <<>>]

\* GroupStep without `updated = true`: the loop ends after its first pass.
GroupStep_OnePass(st, gm) ==
    LET basePrefix == IF gm.base \in DOMAIN st.map THEN st.map[gm.base] ELSE <<>>
        full       == joinPaths(basePrefix, gm.rel)
    IN  IF MapGet(st.map, gm.child) # full
        THEN [map |-> MapSet(st.map, gm.child, full), updated |-> st.updated]
        ELSE st

\* The body of the inner while loop for one match gm of groupRegex: st is
\* the pair of the map and the updated flag.
GroupStep(st, gm) ==
    LET basePrefix == IF gm.base \in DOMAIN st.map THEN st.map[gm.base] ELSE <<>>
        full       == joinPaths(basePrefix, gm.rel)
    IN  IF MapGet(st.map, gm.child) # full
        THEN [map |-> MapSet(st.map, gm.child, full), updated |-> TRUE]
        ELSE st

\* One pass of the outer loop over the matches of groupRegex in text order,
\* from match i on.
RECURSIVE GroupScan(_, _, _)
GroupScan(st, text, i) ==
    IF i > Len(text) THEN st
    ELSE GroupScan(GroupStep(st, text[i]), text, i + 1)

GroupPassResult(map, text) == GroupScan([map |-> map, updated |-> FALSE], text, 1)

\* The map before the loop: every root router variable maps to ''.
RootMap(roots) == [x \in roots |-> <<>>]

\* Identifiers of router variables in a text.
RouterVars == {"r", "g", "h"}

\* Variables a Group call is assigned to.
ChildVars == {"g", "h"}

\* Literal arguments of Group calls and of registrations.
Segments ==
    { <<>>, <<"/">>, <<"a">>, <<"/", "a">>, <<"a", "/">>,
      <<"/", "a", "/">>, <<"a", "/", "/">>, <<"/", "/", "a">> }

GroupDecls == [child : ChildVars, base : RouterVars, rel : Segments]

TooLong(m) == \E k \in DOMAIN m : Len(m[k]) > MaxPathLen

\* A text is given to buildGroupPrefixMap: the state before the while loop.
InitGroup ==
    /\ gText \in SeqsUpTo(GroupDecls, MaxDecls)
    /\ gRoots \in {{}, {"r"}}
    /\ gMap = RootMap(gRoots)
    /\ gUpdated = TRUE
    /\ gIdx = 0
    /\ gPc = "loop"
    /\ RoutesIdle
    /\ StructIdle
    /\ ParamsIdle
    /\ QuoteIdle
    /\ CurlIdle
    /\ BraceIdle
    /\ HandlersIdle
    /\ LinkIdle
    /\ BaseUrlIdle
    /\ ShowIdle
    /\ CommandIdle
    /\ SampleIdle
    /\ OverlayIdle

\* while (updated) { updated = false; const groupRegex = ...
GroupPassBegin ==
    /\ gPc = "loop"
    /\ gUpdated
    /\ gUpdated' = FALSE
    /\ gIdx' = 1
    /\ gPc' = "scan"
    /\ UNCHANGED <<gText, gRoots, gMap>>
    /\ UNCHANGED nonGroupVars

\* while ((gm = groupRegex.exec(text))) { ... } for the next match.
GroupMatch ==
    /\ gPc = "scan"
    /\ gIdx <= Len(gText)
    /\ LET res == GroupStep([map |-> gMap, updated |-> gUpdated], gText[gIdx])
       IN  IF TooLong(res.map)
           THEN /\ gPc' = "capped"
                /\ UNCHANGED <<gMap, gUpdated, gIdx>>
           ELSE /\ gMap' = res.map
                /\ gUpdated' = res.updated
                /\ gIdx' = gIdx + 1
                /\ gPc' = "scan"
    /\ UNCHANGED <<gText, gRoots>>
    /\ UNCHANGED nonGroupVars

\* groupRegex.exec(text) finds no further match: the pass is over.
GroupPassEnd ==
    /\ gPc = "scan"
    /\ gIdx > Len(gText)
    /\ gIdx' = 0
    /\ gPc' = "loop"
    /\ UNCHANGED <<gText, gRoots, gMap, gUpdated>>
    /\ UNCHANGED nonGroupVars

\* The loop condition fails: return map.
GroupReturn ==
    /\ gPc = "loop"
    /\ ~gUpdated
    /\ gPc' = "done"
    /\ UNCHANGED <<gText, gRoots, gMap, gUpdated, gIdx>>
    /\ UNCHANGED nonGroupVars

NextGroup == GroupPassBegin \/ GroupMatch \/ GroupPassEnd \/ GroupReturn

SpecGroup == InitGroup /\ [][NextGroup]_vars

\* The loop is sequential code: it keeps running while it can.
SpecGroupFair == SpecGroup /\ WF_vars(NextGroup)

\* C1: buildGroupPrefixMap terminates on every text, cyclic and
\* self-referential group definitions included: the loop reaches a pass in
\* which no mapping changes and returns.  (A run the model stops following
\* at MaxPathLen is not counted against the claim.)
C1_Terminates == <>(gPc \in {"done", "capped"})

\* s without its leading slashes, and without its trailing slashes.
RECURSIVE StripLeading(_)
StripLeading(s) == IF startsWith(s, "/") THEN StripLeading(Tail(s)) ELSE s

RECURSIVE StripTrailing(_)
StripTrailing(s) == IF endsWith(s, "/") THEN StripTrailing(dropLast(s)) ELSE s

StripSlashes(s) == StripTrailing(StripLeading(s))

\* The text is a chain g1 := r.Group(s1), g2 := g1.Group(s2), ... rooted at
\* a root router variable, each variable bound once, each segment naming
\* something.
IsChain(text, roots) ==
    /\ Len(text) >= 2
    /\ text[1].base \in roots
    /\ \A i \in 2..Len(text) : text[i].base = text[i - 1].child
    /\ \A i \in 1..Len(text) : text[i].child \notin roots
    /\ \A i, j \in 1..Len(text) : i # j => text[i].child # text[j].child
    /\ \A i \in 1..Len(text) : StripSlashes(text[i].rel) # <<>>

\* The segments of the first n declarations, one slash between consecutive
\* ones.
RECURSIVE ChainPrefix(_, _)
ChainPrefix(text, n) ==
    IF n = 1 THEN StripSlashes(text[1].rel)
    ELSE ChainPrefix(text, n - 1) \o <<"/">> \o StripSlashes(text[n].rel)

\* C2: for a chain of N nested groups rooted at a root router variable,
\* the prefix resolved for the last group is the N segments in declaration
\* order with exactly one slash between consecutive segments, whatever
\* leading or trailing slashes the literals carry.
C2_ChainPrefixOneSlash ==
    (gPc = "done" /\ IsChain(gText, gRoots)) =>
        StripSlashes(gMap[gText[Len(gText)].child]) = ChainPrefix(gText, Len(gText))

\* ------------------------------------------------------------------------
\* Route extraction
\* ------------------------------------------------------------------------

HTTP_METHODS == {"GET", "POST", "PUT", "DELETE", "PATCH", "OPTIONS", "HEAD"}

METHOD_ANY == "ANY"

\* A qualified identifier is the sequence of its dot-separated parts.
lastSegment(qualified) == qualified[Len(qualified)]

\* The while loop of buildGroupPrefixMap run to its end: the map it
\* returns, or Undefined when MaxPasses passes do not end it.
RECURSIVE GroupLoop(_, _, _)
GroupLoop(map, text, passes) ==
    LET res == GroupPassResult(map, text)
    IN  IF ~res.updated THEN res.map
        ELSE IF passes <= 1 THEN Undefined
        ELSE GroupLoop(res.map, text, passes - 1)

buildGroupPrefixMap(text, roots) == GroupLoop(RootMap(roots), text, MaxPasses)

\* PrefixOf with every receiver taken for a root router.
PrefixOf_Root(groupPrefixes, recv) == <<>>

\* groupPrefixes.get(recv) || ''
PrefixOf(groupPrefixes, recv) ==
    IF recv \in DOMAIN groupPrefixes THEN groupPrefixes[recv] ELSE <<>>

\* RouteKept with the handler-name test left out of the .Any loop.
RouteKept_AnyUnchecked(m, handlerNames) ==
    /\ m.shape = "handle" => m.method \in HTTP_METHODS
    /\ m.shape # "any" => lastSegment(m.handlerExpr) \in handlerNames

\* RouteKept with the method test left out of the .Handle loop.
RouteKept_AnyToken(m, handlerNames) ==
    lastSegment(m.handlerExpr) \in handlerNames

\* The test guarding routes.push in the loops of findRoutesInText and
\* findRoutesInTextByNames, for a match m of one of the three regular
\* expressions.
RouteKept(m, handlerNames) ==
    /\ m.shape = "handle" => m.method \in HTTP_METHODS
    /\ lastSegment(m.handlerExpr) \in handlerNames

\* The RouteRegistration pushed for a match.
RouteOf(m, groupPrefixes, filePath) ==
    [ method      |-> IF m.shape = "any" THEN METHOD_ANY ELSE m.method,
      path        |-> joinPaths(PrefixOf(groupPrefixes, m.recv), m.relPath),
      handlerName |-> lastSegment(m.handlerExpr),
      filePath    |-> filePath ]

\* One of the three while loops: the matches of one shape, in text order,
\* from match i on.
RECURSIVE ShapeLoop(_, _, _, _, _, _)
ShapeLoop(regs, shape, handlerNames, groupPrefixes, filePath, i) ==
    IF i > Len(regs) THEN <<>>
    ELSE LET m    == regs[i]
             rest == ShapeLoop(regs, shape, handlerNames, groupPrefixes, filePath, i + 1)
         IN  IF m.shape = shape /\ RouteKept(m, handlerNames)
             THEN <<RouteOf(m, groupPrefixes, filePath)>> \o rest
             ELSE rest

findRoutesInTextByNames(doc, handlerNames) ==
    LET groupPrefixes == buildGroupPrefixMap(doc.groups, doc.roots)
    IN  ShapeLoop(doc.regs, "method", handlerNames, groupPrefixes, doc.filePath, 1)
        \o ShapeLoop(doc.regs, "handle", handlerNames, groupPrefixes, doc.filePath, 1)
        \o ShapeLoop(doc.regs, "any", handlerNames, groupPrefixes, doc.filePath, 1)

\* handlers is the list of the names of the HandlerFunctions passed.
findRoutesInText(doc, handlers) ==
    LET handlerNames  == {handlers[i] : i \in 1..Len(handlers)}
        groupPrefixes == buildGroupPrefixMap(doc.groups, doc.roots)
    IN  ShapeLoop(doc.regs, "method", handlerNames, groupPrefixes, doc.filePath, 1)
        \o ShapeLoop(doc.regs, "handle", handlerNames, groupPrefixes, doc.filePath, 1)
        \o ShapeLoop(doc.regs, "any", handlerNames, groupPrefixes, doc.filePath, 1)

\* The branch of scanRoutesAcrossWorkspace taken without handlerNames: no
\* handler-name test, only the method test of .Handle.
RECURSIVE UnfilteredLoop(_, _, _, _, _)
UnfilteredLoop(regs, shape, groupPrefixes, filePath, i) ==
    IF i > Len(regs) THEN <<>>
    ELSE LET m    == regs[i]
             rest == UnfilteredLoop(regs, shape, groupPrefixes, filePath, i + 1)
         IN  IF m.shape = shape /\ (shape = "handle" => m.method \in HTTP_METHODS)
             THEN <<RouteOf(m, groupPrefixes, filePath)>> \o rest
             ELSE rest

RoutesUnfiltered(doc) ==
    LET groupPrefixes == buildGroupPrefixMap(doc.groups, doc.roots)
    IN  UnfilteredLoop(doc.regs, "method", groupPrefixes, doc.filePath, 1)
        \o UnfilteredLoop(doc.regs, "handle", groupPrefixes, doc.filePath, 1)
        \o UnfilteredLoop(doc.regs, "any", groupPrefixes, doc.filePath, 1)

\* for (const doc of docs) { routes.push(...) } for the documents from i
\* on, in the branch without handlerNames and in the branch with them.
RECURSIVE UnfilteredDocs(_, _)
UnfilteredDocs(docs, i) ==
    IF i > Len(docs) THEN <<>>
    ELSE RoutesUnfiltered(docs[i]) \o UnfilteredDocs(docs, i + 1)

RECURSIVE ByNamesDocs(_, _, _)
ByNamesDocs(docs, handlerNames, i) ==
    IF i > Len(docs) THEN <<>>
    ELSE findRoutesInTextByNames(docs[i], handlerNames)
         \o ByNamesDocs(docs, handlerNames, i + 1)

\* handlerNames is a list of names, or Undefined when the argument is
\* omitted.
scanRoutesAcrossWorkspace(docs, handlerNames) ==
    LET namesSet == IF handlerNames = Undefined THEN {}
                    ELSE {handlerNames[i] : i \in 1..Len(handlerNames)}
    IN  [ namesSet |-> namesSet,
          routes   |-> IF handlerNames = Undefined
                       THEN UnfilteredDocs(docs, 1)
                       ELSE ByNamesDocs(docs, namesSet, 1) ]

\* handlers.push(...fileHandlers) for the documents from i on: the names of
\* the handlers of every document, in document order.
RECURSIVE AllHandlers(_, _)
AllHandlers(docs, i) ==
    IF i > Len(docs) THEN <<>> ELSE docs[i].handlers \o AllHandlers(docs, i + 1)

\* A scanWorkspace that extracts the routes of each document inside the first
\* loop, with the handlers gathered up to that document.
RECURSIVE StreamingDocs(_, _)
StreamingDocs(docs, i) ==
    IF i > Len(docs) THEN <<>>
    ELSE LET handlers == AllHandlers(SubSeq(docs, 1, i), 1)
         IN  findRoutesInTextByNames(docs[i], {handlers[j] : j \in 1..Len(handlers)})
             \o StreamingDocs(docs, i + 1)

scanWorkspace_Streaming(docs) ==
    LET handlers     == AllHandlers(docs, 1)
        handlerNames == {handlers[i] : i \in 1..Len(handlers)}
    IN  [ handlers     |-> handlers,
          handlerNames |-> handlerNames,
          routes       |-> StreamingDocs(docs, 1) ]

scanWorkspace(docs) ==
    LET handlers     == AllHandlers(docs, 1)
        handlerNames == {handlers[i] : i \in 1..Len(handlers)}
    IN  [ handlers     |-> handlers,
          handlerNames |-> handlerNames,
          routes       |-> ByNamesDocs(docs, handlerNames, 1) ]

\* The registration call sites of the model's documents: what one of the
\* three regular expressions matched.  r is a root router, g a group made
\* from it, x a variable the prefix map does not know.
RegMatches ==
    { [shape |-> "method", method |-> "GET",  recv |-> "r",
       relPath |-> <<"/", "a">>,      handlerExpr |-> <<"H">>],
      [shape |-> "method", method |-> "POST", recv |-> "g",
       relPath |-> <<"a">>,           handlerExpr |-> <<"p", "H">>],
      [shape |-> "handle", method |-> "PUT",  recv |-> "g",
       relPath |-> <<>>,              handlerExpr |-> <<"K">>],
      [shape |-> "any",    method |-> "",     recv |-> "x",
       relPath |-> <<"/", "/", "a">>, handlerExpr |-> <<"H">>],
      [shape |-> "any",    method |-> "",     recv |-> "g",
       relPath |-> <<"/", "a">>,      handlerExpr |-> <<"p", "K">>],
      [shape |-> "handle", method |-> "GET",  recv |-> "x",
       relPath |-> <<"a">>,           handlerExpr |-> <<"p", "H">>],
      [shape |-> "handle", method |-> "ANY",  recv |-> "r",
       relPath |-> <<"/", "a">>,      handlerExpr |-> <<"H">>] }

\* The Group declarations of a document: g := r.Group("/a/").  With the
\* receivers r, g and x of RegMatches the prefixes '' (a root), '/a/' (a
\* group) and none (an unknown variable) all occur.
DocGroups == <<[child |-> "g", base |-> "r", rel |-> <<"/", "a", "/">>]>>

\* The handlers a document defines.
DocHandlers == { <<>>, <<"H">> }

\* The matches of flat that owner gives to document d, in order.
RECURSIVE OwnedBy(_, _, _, _)
OwnedBy(flat, owner, d, i) ==
    IF i > Len(flat) THEN <<>>
    ELSE IF owner[i] = d THEN <<flat[i]>> \o OwnedBy(flat, owner, d, i + 1)
    ELSE OwnedBy(flat, owner, d, i + 1)

\* The assignments of the matches of flat to n documents that keep the
\* matches of a document together.
Owners(flat, n) ==
    { o \in [1..Len(flat) -> 1..n] :
        \A i, j \in 1..Len(flat) : i < j => o[i] <= o[j] }

\* The workspace of n documents with the handlers hs[d] and the matches of
\* flat that owner gives to document d.
MakeDocs(n, hs, flat, owner) ==
    [d \in 1..n |->
        [ filePath |-> d,
          groups   |-> DocGroups,
          roots    |-> {"r"},
          handlers |-> hs[d],
          regs     |-> OwnedBy(flat, owner, d, 1) ]]

\* The handler-name arguments the operations are called with.
NameLists == { <<>>, <<"H">>, <<"H", "K">> }

\* A workspace of at most MaxFiles documents holding at most MaxRegs
\* registration call sites.
InitRoutes ==
    /\ \E n \in 0..MaxFiles :
       \E hs \in [1..n -> DocHandlers] :
       \E flat \in (IF n = 0 THEN {<<>>} ELSE SeqsUpTo(RegMatches, MaxRegs)) :
       \E owner \in Owners(flat, n) :
          rFiles = MakeDocs(n, hs, flat, owner)
    /\ rOp = "none"
    /\ rKnown = {}
    /\ rRoutes = <<>>
    /\ rPc = "ready"
    /\ GroupIdle
    /\ StructIdle
    /\ ParamsIdle
    /\ QuoteIdle
    /\ CurlIdle
    /\ BraceIdle
    /\ HandlersIdle
    /\ LinkIdle
    /\ BaseUrlIdle
    /\ ShowIdle
    /\ CommandIdle
    /\ SampleIdle
    /\ OverlayIdle

\* scanDocument: findRoutesInText(doc, handlers) with the handlers of doc.
CallFindRoutesInText ==
    /\ rPc = "ready"
    /\ \E d \in 1..Len(rFiles) :
          /\ rKnown' = {rFiles[d].handlers[i] : i \in 1..Len(rFiles[d].handlers)}
          /\ rRoutes' = findRoutesInText(rFiles[d], rFiles[d].handlers)
    /\ rOp' = "findRoutesInText"
    /\ rPc' = "done"
    /\ UNCHANGED rFiles
    /\ UNCHANGED nonRouteVars

CallFindRoutesInTextByNames ==
    /\ rPc = "ready"
    /\ \E d \in 1..Len(rFiles), names \in NameLists :
          /\ rKnown' = {names[i] : i \in 1..Len(names)}
          /\ rRoutes' = findRoutesInTextByNames(rFiles[d], {names[i] : i \in 1..Len(names)})
    /\ rOp' = "findRoutesInTextByNames"
    /\ rPc' = "done"
    /\ UNCHANGED rFiles
    /\ UNCHANGED nonRouteVars

\* scanRoutesAcrossWorkspace(handlerNames), as the commands call it.
CallScanRoutesAcrossWorkspace ==
    /\ rPc = "ready"
    /\ \E names \in NameLists :
          LET res == scanRoutesAcrossWorkspace(rFiles, names)
          IN  /\ rKnown' = res.namesSet
              /\ rRoutes' = res.routes
    /\ rOp' = "scanRoutesAcrossWorkspace"
    /\ rPc' = "done"
    /\ UNCHANGED rFiles
    /\ UNCHANGED nonRouteVars

\* scanRoutesAcrossWorkspace(): the optional argument omitted.
CallScanRoutesAcrossWorkspaceNoNames ==
    /\ rPc = "ready"
    /\ LET res == scanRoutesAcrossWorkspace(rFiles, Undefined)
       IN  /\ rKnown' = res.namesSet
           /\ rRoutes' = res.routes
    /\ rOp' = "scanRoutesAcrossWorkspaceNoNames"
    /\ rPc' = "done"
    /\ UNCHANGED rFiles
    /\ UNCHANGED nonRouteVars

CallScanWorkspace ==
    /\ rPc = "ready"
    /\ LET res == scanWorkspace(rFiles)
       IN  /\ rKnown' = res.handlerNames
           /\ rRoutes' = res.routes
    /\ rOp' = "scanWorkspace"
    /\ rPc' = "done"
    /\ UNCHANGED rFiles
    /\ UNCHANGED nonRouteVars

NextRoutes ==
    \/ CallFindRoutesInText
    \/ CallFindRoutesInTextByNames
    \/ CallScanRoutesAcrossWorkspace
    \/ CallScanRoutesAcrossWorkspaceNoNames
    \/ CallScanWorkspace

SpecRoutes == InitRoutes /\ [][NextRoutes]_vars

\* The routes of rRoutes, as a set of positions.
RouteIdx == 1..Len(rRoutes)

\* C3: every RouteRegistration emitted has a path that begins with '/' and
\* contains no two consecutive slashes, for every group prefix and every
\* literal local path.
C3_PathWellFormed ==
    rPc = "done" =>
        \A i \in RouteIdx :
            /\ startsWith(rRoutes[i].path, "/")
            /\ ~HasDouble(rRoutes[i].path, "/")

\* C4 as stated: no route-extraction operation emits a RouteRegistration
\* whose handlerName is absent from the known handler names.
C4_NoUnknownHandler ==
    rPc = "done" => \A i \in RouteIdx : rRoutes[i].handlerName \in rKnown

\* C4 as amended: every operation that is given (or gathers) handler names
\* emits only registrations of those names, for all three shapes; only
\* scanRoutesAcrossWorkspace called without names emits unfiltered.
C4_NoUnknownHandlerWhenNamed ==
    (rPc = "done" /\ rOp # "scanRoutesAcrossWorkspaceNoNames") =>
        \A i \in RouteIdx : rRoutes[i].handlerName \in rKnown

\* The call sites of the workspace whose handler is not among the known
\* names (leaving aside the .Handle calls the method test drops).
UnknownSites ==
    { <<d, i>> \in (1..Len(rFiles)) \X (1..MaxRegs) :
        /\ i <= Len(rFiles[d].regs)
        /\ rFiles[d].regs[i].shape = "handle" => rFiles[d].regs[i].method \in HTTP_METHODS
        /\ lastSegment(rFiles[d].regs[i].handlerExpr) \notin rKnown }

\* A filtering operation ran over a workspace with a call site of an
\* unknown handler and one of a known handler: it kept the one and dropped
\* the other.
C4_Witness ==
    /\ rPc = "done"
    /\ rOp = "scanWorkspace"
    /\ UnknownSites # {}
    /\ rRoutes # <<>>

\* ------------------------------------------------------------------------
\* Struct field resolution
\* ------------------------------------------------------------------------

\* String.prototype.toLowerCase on one character of the model's alphabet.
UpperCase == <<"A", "B", "C", "D", "E", "F", "G", "H", "I", "J", "K", "L", "M", "N", "O", "P", "Q", "R", "S", "T", "U", "V", "W", "X", "Y", "Z">>

LowerCase == <<"a", "b", "c", "d", "e", "f", "g", "h", "i", "j", "k", "l", "m", "n", "o", "p", "q", "r", "s", "t", "u", "v", "w", "x", "y", "z">>

toLowerCase(ch) ==
    IF \E i \in 1..Len(UpperCase) : UpperCase[i] = ch
    THEN LowerCase[CHOOSE i \in 1..Len(UpperCase) : UpperCase[i] = ch]
    ELSE ch

\* lowerCamel kept as the Go identifier is written.
lowerCamel_AsWritten(s) == s

lowerCamel(s) ==
    IF s = <<>> THEN s ELSE <<toLowerCase(s[1])>> \o Tail(s)

\* s.split(',')[0]: the characters before the first comma.
RECURSIVE BeforeComma(_)
BeforeComma(s) ==
    IF s = <<>> \/ s[1] = "," THEN <<>> ELSE <<s[1]>> \o BeforeComma(Tail(s))

\* The body of the for loop over the lines of the struct body: the
\* descriptors one line adds.  A line the field pattern does not match
\* (kind "other": a blank line, a comment, an embedded type) adds nothing;
\* line.tag is what json:"([^"]+)" captured in the tag, <<>> when it did not
\* match.
FieldsOfLine(line) ==
    IF line.kind # "field" THEN <<>>
    ELSE LET name == BeforeComma(line.tag)
         IN  IF line.tag # <<>> /\ name # <<>> /\ name # <<"-">>
             THEN <<[name |-> name, goType |-> line.goType]>>
             ELSE <<[name |-> lowerCamel(line.goField), goType |-> line.goType]>>

RECURSIVE FieldsOfLines(_, _)
FieldsOfLines(lines, i) ==
    IF i > Len(lines) THEN <<>>
    ELSE FieldsOfLine(lines[i]) \o FieldsOfLines(lines, i + 1)

\* Deduplicate by name: the loop over fields with the set seen.
RECURSIVE UniqueByName(_, _, _)
UniqueByName(fields, seen, i) ==
    IF i > Len(fields) THEN <<>>
    ELSE IF fields[i].name \in seen THEN UniqueByName(fields, seen, i + 1)
    ELSE <<fields[i]>> \o UniqueByName(fields, seen \cup {fields[i].name}, i + 1)

\* The first struct declaration of typeName in the text (what defRe.exec
\* finds), 0 when there is none.
RECURSIVE FindStruct(_, _, _)
FindStruct(structs, typeName, i) ==
    IF i > Len(structs) THEN 0
    ELSE IF structs[i].name = typeName THEN i
    ELSE FindStruct(structs, typeName, i + 1)

\* extractStructFieldsFromText answering the fields of the first struct of
\* the text when typeName is not declared.
extractStructFieldsFromText_FirstStruct(text, typeName) ==
    LET at == FindStruct(text.structs, typeName, 1)
        k  == IF at = 0 THEN 1 ELSE at
    IN  IF text.structs = <<>> THEN <<>>
        ELSE UniqueByName(FieldsOfLines(text.structs[k].lines, 1), {}, 1)

\* text.structs are the struct declarations of the text, in text order.
extractStructFieldsFromText(text, typeName) ==
    LET at == FindStruct(text.structs, typeName, 1)
    IN  IF at = 0 THEN <<>>
        ELSE UniqueByName(FieldsOfLines(text.structs[at].lines, 1), {}, 1)

\* Go field identifiers, declared types and json tag values of the model.
GoFields == { <<"A">>, <<"B", "e">> }

GoTypes == { "string", "int" }

JsonTags == { <<>>, <<"a">>, <<"e", ",", "o">>, <<"-">>, <<",", "o">> }

StructLines ==
    [kind : {"field"}, goField : GoFields, goType : GoTypes, tag : JsonTags]
    \cup { [kind |-> "other", goField |-> <<>>, goType |-> "", tag |-> <<>>] }

\* A text with one struct declaration, of type T, and a type name: T, or U
\* which the text does not declare.
InitStruct ==
    /\ \E lines \in SeqsUpTo(StructLines, MaxLines) :
          sText = [structs |-> <<[name |-> "T", lines |-> lines]>>, varDecls |-> <<>>]
    /\ sType \in {"T", "U"}
    /\ sFields = <<>>
    /\ sPc = "ready"
    /\ GroupIdle
    /\ RoutesIdle
    /\ ParamsIdle
    /\ QuoteIdle
    /\ CurlIdle
    /\ BraceIdle
    /\ HandlersIdle
    /\ LinkIdle
    /\ BaseUrlIdle
    /\ ShowIdle
    /\ CommandIdle
    /\ SampleIdle
    /\ OverlayIdle

CallExtractStructFields ==
    /\ sPc = "ready"
    /\ sFields' = extractStructFieldsFromText(sText, sType)
    /\ sPc' = "done"
    /\ UNCHANGED <<sText, sType>>
    /\ UNCHANGED nonStructVars

NextStruct == CallExtractStructFields

SpecStruct == InitStruct /\ [][NextStruct]_vars

\* The lines of the struct declaration the call read.
SLines == sText.structs[1].lines

FieldLineIdx == {i \in 1..Len(SLines) : SLines[i].kind = "field"}

\* The line carries the suppression marker: a json tag named "-".
Suppressed(line) == line.kind = "field" /\ line.tag # <<>> /\ BeforeComma(line.tag) = <<"-">>

\* The line carries a json tag with a name before its first comma.
NamedByTag(line) ==
    line.kind = "field" /\ BeforeComma(line.tag) # <<>> /\ ~Suppressed(line)

\* The line is a field without json tag.
Untagged(line) == line.kind = "field" /\ line.tag = <<>>

\* The name the specification gives a field: the tag name, or the Go
\* identifier with its first letter lower-cased.
SpecName(line) ==
    IF NamedByTag(line) THEN BeforeComma(line.tag)
    ELSE <<toLowerCase(line.goField[1])>> \o Tail(line.goField)

\* C7: a field whose json tag name is '-' is omitted entirely: no
\* descriptor for it appears, under the tag name or under the lower-camel
\* form of its Go identifier (a name another field of the struct does not
\* have).
C7_SuppressedFieldOmitted ==
    (sPc = "done" /\ sType = "T") =>
        \A i \in FieldLineIdx :
            (/\ Suppressed(SLines[i])
             /\ \A j \in FieldLineIdx \ {i} :
                    Suppressed(SLines[j]) \/ SpecName(SLines[j]) # SpecName(SLines[i]))
            => \A k \in 1..Len(sFields) :
                    /\ sFields[k].name # <<"-">>
                    /\ sFields[k].name # SpecName(SLines[i])

\* Every field line is untagged or named by its tag.
PlainStruct == \A i \in FieldLineIdx : Untagged(SLines[i]) \/ NamedByTag(SLines[i])

\* The first field line with the name nm.
FirstLineNamed(nm) ==
    CHOOSE i \in FieldLineIdx :
        /\ SpecName(SLines[i]) = nm
        /\ \A j \in FieldLineIdx : SpecName(SLines[j]) = nm => i <= j

IsSuffix(suf, s) ==
    Len(suf) <= Len(s) /\ SubSeq(s, Len(s) - Len(suf) + 1, Len(s)) = suf

\* cPattern matches the receiver of a call: any identifier when ctxVar is
\* undefined, else an identifier ending in ctxVar (the pattern has no word
\* boundary before it).
RecvMatches(recv, ctxVar) == ctxVar = Undefined \/ IsSuffix(ctxVar, recv)

\* regex.test(body) for a pattern `${cPattern}\.(accessors)`.
TestCall(body, ctxVar, accessors) ==
    \E i \in 1..Len(body) :
        RecvMatches(body[i].recv, ctxVar) /\ body[i].accessor \in accessors

\* The body detection with the multipart test ahead of the JSON test.
BodyTypeOf_MultipartFirst(body, ctxVar) ==
    IF TestCall(body, ctxVar, {"FormFile", "MultipartForm"}) THEN "multipart"
    ELSE IF TestCall(body, ctxVar, {"ShouldBindJSON", "BindJSON"}) THEN "json"
    ELSE IF TestCall(body, ctxVar, {"PostForm"}) THEN "form"
    ELSE "none"

\* Body detection: the if / else if chain over jsonBind, multipart,
\* formBind, queryBind and genericBind.
BodyTypeOf(body, ctxVar) ==
    IF TestCall(body, ctxVar, {"ShouldBindJSON", "BindJSON"}) THEN "json"
    ELSE IF TestCall(body, ctxVar, {"FormFile", "MultipartForm"}) THEN "multipart"
    ELSE IF TestCall(body, ctxVar, {"PostForm"}) THEN "form"
    ELSE IF TestCall(body, ctxVar, {"ShouldBindQuery", "BindQuery"}) THEN "none"
    ELSE IF TestCall(body, ctxVar, {"ShouldBind", "Bind"}) THEN "none"
    ELSE "none"

\* The while loop over the matches of a pattern
\* `${cPattern}\.(accessors)\s*\(\s*"([^"]+)"`: the literals pushed, from
\* call i on.  The pattern needs a non-empty string literal.
RECURSIVE Collect(_, _, _, _)
Collect(body, ctxVar, accessors, i) ==
    IF i > Len(body) THEN <<>>
    ELSE IF /\ RecvMatches(body[i].recv, ctxVar)
            /\ body[i].accessor \in accessors
            /\ body[i].argKind = "literal"
            /\ body[i].lit # <<>>
         THEN <<body[i].lit>> \o Collect(body, ctxVar, accessors, i + 1)
         ELSE Collect(body, ctxVar, accessors, i + 1)

\* s.slice(0, i - 1) as a set.
Before(s, i) == {s[j] : j \in 1..(i - 1)}

\* Deduplicate with the duplicates kept.
Dedupe_KeepAll(s) == s

\* Array.from(new Set(s)): the first occurrence of every element, in order.
Dedupe(s) ==
    LET keep == {i \in 1..Len(s) : s[i] \notin Before(s, i)}
        F[i \in 0..Len(s)] ==
            IF i = 0 THEN <<>>
            ELSE IF i \in keep THEN Append(F[i - 1], s[i]) ELSE F[i - 1]
    IN  F[Len(s)]

BindAccessors == {"ShouldBindJSON", "BindJSON", "ShouldBind", "Bind"}

\* The first call a bind pattern with an argument of one of kinds matches,
\* 0 when there is none.
RECURSIVE FirstBind(_, _, _, _)
FirstBind(body, ctxVar, kinds, i) ==
    IF i > Len(body) THEN 0
    ELSE IF /\ RecvMatches(body[i].recv, ctxVar)
            /\ body[i].accessor \in BindAccessors
            /\ body[i].argKind \in kinds
         THEN i
         ELSE FirstBind(body, ctxVar, kinds, i + 1)

\* The undefined type name; a type name a pattern matched is never empty.
NoType == ""

\* The first declaration of varName of one of forms, 0 when there is none.
RECURSIVE FirstDecl(_, _, _, _)
FirstDecl(varDecls, varName, forms, i) ==
    IF i > Len(varDecls) THEN 0
    ELSE IF varDecls[i].name = varName /\ varDecls[i].form \in forms THEN i
    ELSE FirstDecl(varDecls, varName, forms, i + 1)

\* text.varDecls are the places of the text that give a variable a type:
\* form "var" (var x T), "assign" (x = T{ or x = &T{ or x: T{), "short"
\* (x := T{ or x := &T{) and "new" (x := new(T)).  The second and third
\* patterns take one of ':' and '=' after the name, so neither matches the
\* form "short".
findVarTypeInText(text, varName) ==
    LET v == FirstDecl(text.varDecls, varName, {"var"}, 1)
        a == FirstDecl(text.varDecls, varName, {"assign"}, 1)
        n == FirstDecl(text.varDecls, varName, {"new"}, 1)
    IN  IF v # 0 THEN text.varDecls[v].type
        ELSE IF a # 0 THEN text.varDecls[a].type
        ELSE IF n # 0 THEN text.varDecls[n].type
        ELSE NoType

\* No struct was bound: jsonStructName and jsonFields stay undefined.
NoBinding == [jsonStructName |-> NoType, hasJsonFields |-> FALSE, jsonFields |-> <<>>]

\* If JSON body: the bound struct type and its fields, from the first
\* struct-literal binding, else from the first address-of binding.
\* hasJsonFields tells an assigned jsonFields from an undefined one.
JsonBinding(body, ctxVar, fullText) ==
    LET lit  == FirstBind(body, ctxVar, {"structLit"}, 1)
        addr == FirstBind(body, ctxVar, {"structLit", "addrVar"}, 1)
    IN  IF lit # 0
        THEN [ jsonStructName |-> body[lit].argName,
               hasJsonFields  |-> TRUE,
               jsonFields     |-> extractStructFieldsFromText(fullText, body[lit].argName) ]
        ELSE IF addr = 0 THEN NoBinding
        ELSE LET typeName == findVarTypeInText(fullText, body[addr].argName)
             IN  IF typeName = NoType THEN NoBinding
                 ELSE [ jsonStructName |-> typeName,
                        hasJsonFields  |-> TRUE,
                        jsonFields     |-> extractStructFieldsFromText(fullText, typeName) ]

\* inferParamsFromBody looking for the bound struct whatever the body type.
inferParamsFromBody_AlwaysBind(body, ctxVar, fullText) ==
    LET json == JsonBinding(body, ctxVar, fullText)
    IN  [ pathParams     |-> Dedupe(Collect(body, ctxVar, {"Param"}, 1)),
          queryParams    |-> Dedupe(Collect(body, ctxVar,
                                {"Query", "DefaultQuery", "QueryArray", "QueryMap"}, 1)),
          headers        |-> Dedupe(Collect(body, ctxVar, {"GetHeader"}, 1)
                                    \o Collect(body, ctxVar, {"Request.Header.Get"}, 1)),
          cookies        |-> Dedupe(Collect(body, ctxVar, {"Cookie"}, 1)),
          bodyType       |-> BodyTypeOf(body, ctxVar),
          jsonStructName |-> json.jsonStructName,
          hasJsonFields  |-> json.hasJsonFields,
          jsonFields     |-> json.jsonFields ]

inferParamsFromBody(body, ctxVar, fullText) ==
    LET bodyType == BodyTypeOf(body, ctxVar)
        json     == IF bodyType = "json" THEN JsonBinding(body, ctxVar, fullText)
                    ELSE NoBinding
    IN  [ pathParams     |-> Dedupe(Collect(body, ctxVar, {"Param"}, 1)),
          queryParams    |-> Dedupe(Collect(body, ctxVar,
                                {"Query", "DefaultQuery", "QueryArray", "QueryMap"}, 1)),
          headers        |-> Dedupe(Collect(body, ctxVar, {"GetHeader"}, 1)
                                    \o Collect(body, ctxVar, {"Request.Header.Get"}, 1)),
          cookies        |-> Dedupe(Collect(body, ctxVar, {"Cookie"}, 1)),
          bodyType       |-> bodyType,
          jsonStructName |-> json.jsonStructName,
          hasJsonFields  |-> json.hasJsonFields,
          jsonFields     |-> json.jsonFields ]

\* A call of the model's handler bodies.
Call(recv, accessor, argKind, lit, argName) ==
    [recv |-> recv, accessor |-> accessor, argKind |-> argKind,
     lit |-> lit, argName |-> argName]

LitCall(recv, accessor, lit) == Call(recv, accessor, "literal", lit, "")

\* The calls of the model's handler bodies: on the context variable c and
\* on another variable d.
BodyCalls ==
    { Call(<<"c">>, "BindJSON", "structLit", <<>>, "T"),
      Call(<<"c">>, "ShouldBindJSON", "addrVar", <<>>, "req"),
      Call(<<"c">>, "ShouldBind", "structLit", <<>>, "U"),
      Call(<<"c">>, "Bind", "other", <<>>, ""),
      Call(<<"c">>, "BindQuery", "addrVar", <<>>, "v"),
      Call(<<"c">>, "MultipartForm", "other", <<>>, ""),
      Call(<<"d">>, "BindJSON", "addrVar", <<>>, "v"),
      LitCall(<<"c">>, "PostForm", <<"q">>),
      LitCall(<<"c">>, "FormFile", <<"q">>),
      LitCall(<<"c">>, "Query", <<"q">>),
      LitCall(<<"c">>, "Query", <<"i", "d">>),
      LitCall(<<"c">>, "Query", <<>>),
      LitCall(<<"c">>, "DefaultQuery", <<"q">>),
      LitCall(<<"c">>, "Param", <<"i", "d">>),
      LitCall(<<"c">>, "GetHeader", <<"q">>),
      LitCall(<<"c">>, "GetHeader", <<"i", "d">>),
      LitCall(<<"c">>, "Request.Header.Get", <<"q">>),
      LitCall(<<"c">>, "Cookie", <<"q">>),
      LitCall(<<"d">>, "Query", <<"q">>),
      LitCall(<<"d">>, "Cookie", <<"i", "d">>) }

\* The text around the handler: type T struct { A string `json:"e,o"`;
\* Be int }, var req T.
SampleText ==
    [ structs |->
        << [ name  |-> "T",
             lines |-> << [kind |-> "field", goField |-> <<"A">>,
                           goType |-> "string", tag |-> <<"e", ",", "o">>],
                          [kind |-> "field", goField |-> <<"B", "e">>,
                           goType |-> "int", tag |-> <<>>] >> ] >>,
      varDecls |-> << [name |-> "req", form |-> "var", type |-> "T"] >> ]

InitParams ==
    /\ pBody \in SeqsUpTo(BodyCalls, MaxCalls)
    /\ pCtx \in {<<"c">>, Undefined}
    /\ pText = SampleText
    /\ pParams = <<>>
    /\ pPc = "ready"
    /\ GroupIdle
    /\ RoutesIdle
    /\ StructIdle
    /\ QuoteIdle
    /\ CurlIdle
    /\ BraceIdle
    /\ HandlersIdle
    /\ LinkIdle
    /\ BaseUrlIdle
    /\ ShowIdle
    /\ CommandIdle
    /\ SampleIdle
    /\ OverlayIdle

CallInferParamsFromBody ==
    /\ pPc = "ready"
    /\ pParams' = inferParamsFromBody(pBody, pCtx, pText)
    /\ pPc' = "done"
    /\ UNCHANGED <<pBody, pCtx, pText>>
    /\ UNCHANGED nonParamVars

NextParams == CallInferParamsFromBody

SpecParams == InitParams /\ [][NextParams]_vars

\* The calls of the body made on the context variable (on any variable
\* when the context parameter is not known).
OnContext(call) == pCtx = Undefined \/ call.recv = pCtx

Present(accessors) ==
    \E i \in 1..Len(pBody) : OnContext(pBody[i]) /\ pBody[i].accessor \in accessors

HasJsonBind == Present({"ShouldBindJSON", "BindJSON"})

HasMultipart == Present({"FormFile", "MultipartForm"})

HasFormBind == Present({"PostForm"})

HasQueryBind == Present({"ShouldBindQuery", "BindQuery"})

HasGenericBind == Present({"ShouldBind", "Bind"})

\* C5: the body classification follows the precedence JSON bind >
\* multipart > form bind > query-only bind > generic bind: it is that of the
\* highest-ranked call present, and a body whose only bind calls are
\* query-only or generic is 'none', never 'json'.
C5_BodyTypePrecedence ==
    pPc = "done" =>
        /\ HasJsonBind => pParams.bodyType = "json"
        /\ (~HasJsonBind /\ HasMultipart) => pParams.bodyType = "multipart"
        /\ (~HasJsonBind /\ ~HasMultipart /\ HasFormBind) => pParams.bodyType = "form"
        /\ (~HasJsonBind /\ ~HasMultipart /\ ~HasFormBind) => pParams.bodyType = "none"

\* A body with a JSON-bind call, a multipart call and a form-bind call has
\* been classified as json.
C5_Witness ==
    /\ pPc = "done"
    /\ HasJsonBind /\ HasMultipart /\ HasFormBind
    /\ pParams.bodyType = "json"

\* The names the accessor calls of the body read.
Names(accessors) ==
    { pBody[i].lit : i \in
        { j \in 1..Len(pBody) :
            /\ OnContext(pBody[j])
            /\ pBody[j].accessor \in accessors
            /\ pBody[j].argKind = "literal"
            /\ pBody[j].lit # <<>> } }

\* s holds every element of S exactly once.
ExactlyOnce(s, S) ==
    /\ {s[i] : i \in 1..Len(s)} = S
    /\ \A i, j \in 1..Len(s) : i # j => s[i] # s[j]

\* C6: after inferParamsFromBody each of pathParams, queryParams, headers
\* and cookies contains every collected name exactly once, however many
\* accessor calls read it (for headers also through both GetHeader and
\* Request.Header.Get).
C6_NamesExactlyOnce ==
    pPc = "done" =>
        /\ ExactlyOnce(pParams.pathParams, Names({"Param"}))
        /\ ExactlyOnce(pParams.queryParams,
                       Names({"Query", "DefaultQuery", "QueryArray", "QueryMap"}))
        /\ ExactlyOnce(pParams.headers, Names({"GetHeader", "Request.Header.Get"}))
        /\ ExactlyOnce(pParams.cookies, Names({"Cookie"}))

\* A header read through GetHeader and through Request.Header.Get, and a
\* query parameter read twice, came out once each.
C6_Witness ==
    /\ pPc = "done"
    /\ \E i, j \in 1..Len(pBody) :
          /\ pBody[i].accessor = "GetHeader"
          /\ pBody[j].accessor = "Request.Header.Get"
          /\ pBody[i].lit = pBody[j].lit
          /\ OnContext(pBody[i]) /\ OnContext(pBody[j])
    /\ Len(pParams.headers) = 1

\* ------------------------------------------------------------------------
\* Shell quoting
\* ------------------------------------------------------------------------

\* The replacement text of shellQuote: the template literal `'\''`, in which
\* the escape \' stands for a quote character.
QuoteEscape == <<"'", "'", "'">>

\* s.replace(/'/g, QuoteEscape)
RECURSIVE ReplaceQuotes(_)
ReplaceQuotes(s) ==
    IF s = <<>> THEN <<>>
    ELSE IF s[1] = "'" THEN QuoteEscape \o ReplaceQuotes(Tail(s))
    ELSE <<s[1]>> \o ReplaceQuotes(Tail(s))

shellQuote(s) ==
    IF s = <<>> THEN <<"'", "'">>
    ELSE <<"'">> \o ReplaceQuotes(s) \o <<"'">>

\* The characters of the strings quoted: a letter, the quote, the
\* backslash and the blank.
QuoteChars == {"a", "'", "\\", " "}

InitQuote ==
    /\ qIn \in SeqsUpTo(QuoteChars, MaxQuoteLen)
    /\ qOut = <<>>
    /\ qPc = "ready"
    /\ GroupIdle
    /\ RoutesIdle
    /\ StructIdle
    /\ ParamsIdle
    /\ CurlIdle
    /\ BraceIdle
    /\ HandlersIdle
    /\ LinkIdle
    /\ BaseUrlIdle
    /\ ShowIdle
    /\ CommandIdle
    /\ SampleIdle
    /\ OverlayIdle

CallShellQuote ==
    /\ qPc = "ready"
    /\ qOut' = shellQuote(qIn)
    /\ qPc' = "done"
    /\ UNCHANGED qIn
    /\ UNCHANGED nonQuoteVars

NextQuote == CallShellQuote

SpecQuote == InitQuote /\ [][NextQuote]_vars

\* The word a POSIX shell reads from t: inside single quotes every
\* character stands for itself up to the closing quote; outside, a quote
\* opens a quoted stretch, a backslash makes the next character literal and
\* a blank ends the word.  ok is FALSE when t is not one complete word.
RECURSIVE ShellRead(_, _, _, _)
ShellRead(t, i, inQuote, acc) ==
    IF i > Len(t) THEN [ok |-> ~inQuote, value |-> acc]
    ELSE IF inQuote
         THEN IF t[i] = "'" THEN ShellRead(t, i + 1, FALSE, acc)
              ELSE ShellRead(t, i + 1, TRUE, Append(acc, t[i]))
    ELSE IF t[i] = "'" THEN ShellRead(t, i + 1, TRUE, acc)
    ELSE IF t[i] = "\\"
         THEN IF i = Len(t) THEN [ok |-> FALSE, value |-> acc]
              ELSE ShellRead(t, i + 2, FALSE, Append(acc, t[i + 1]))
    ELSE IF t[i] = " " THEN [ok |-> FALSE, value |-> acc]
    ELSE ShellRead(t, i + 1, FALSE, Append(acc, t[i]))

ShellWord(t) == ShellRead(t, 1, FALSE, <<>>)

\* C9: shellQuote is a faithful POSIX single-quote encoding: for every
\* string s, also one holding single quotes, the shell reads shellQuote(s)
\* as one word that is exactly s.
C9_QuoteRoundTrip ==
    qPc = "done" => ShellWord(qOut) = [ok |-> TRUE, value |-> qIn]

\* ------------------------------------------------------------------------
\* cURL generation
\* ------------------------------------------------------------------------

Digits == <<"0", "1", "2", "3", "4", "5", "6", "7", "8", "9">>

\* The characters of the class [A-Za-z0-9_].
WordChars ==
    {UpperCase[i] : i \in 1..Len(UpperCase)} \cup {LowerCase[i] : i \in 1..Len(LowerCase)}
        \cup {Digits[i] : i \in 1..Len(Digits)} \cup {"_"}

\* s.toLowerCase()
ToLower(s) == [i \in 1..Len(s) |-> toLowerCase(s[i])]

\* s without its leading characters outside [A-Za-z0-9_].
RECURSIVE SkipNonWord(_)
SkipNonWord(s) ==
    IF s = <<>> \/ s[1] \in WordChars THEN s ELSE SkipNonWord(Tail(s))

\* name.replace(/[^A-Za-z0-9_]+/g, '_')
RECURSIVE normalizePlaceholder(_)
normalizePlaceholder(name) ==
    IF name = <<>> THEN <<>>
    ELSE IF name[1] \in WordChars THEN <<name[1]>> \o normalizePlaceholder(Tail(name))
    ELSE <<"_">> \o normalizePlaceholder(SkipNonWord(name))

\* parts.join(sep)
RECURSIVE Join(_, _)
Join(parts, sep) ==
    IF parts = <<>> THEN <<>>
    ELSE IF Len(parts) = 1 THEN parts[1]
    ELSE parts[1] \o sep \o Join(Tail(parts), sep)

\* pre is a prefix of s.
IsPrefix(pre, s) == Len(pre) <= Len(s) /\ SubSeq(s, 1, Len(pre)) = pre

\* urlPath.replace(new RegExp(`:${p}(?![A-Za-z0-9_])`, 'g'), `<${p}>`), for
\* a name p without regular-expression metacharacters.
RECURSIVE ReplacePathParam(_, _)
ReplacePathParam(urlPath, p) ==
    LET pat == <<":">> \o p
    IN  IF urlPath = <<>> THEN <<>>
        ELSE IF /\ IsPrefix(pat, urlPath)
                /\ (Len(urlPath) = Len(pat) \/ urlPath[Len(pat) + 1] \notin WordChars)
             THEN <<"<">> \o p \o <<">">>
                    \o ReplacePathParam(SubSeq(urlPath, Len(pat) + 1, Len(urlPath)), p)
             ELSE <<urlPath[1]>> \o ReplacePathParam(Tail(urlPath), p)

\* The for loop over handler.params.pathParams, from parameter i on.
RECURSIVE ReplacePathParams(_, _, _)
ReplacePathParams(urlPath, pathParams, i) ==
    IF i > Len(pathParams) THEN urlPath
    ELSE ReplacePathParams(ReplacePathParam(urlPath, pathParams[i]), pathParams, i + 1)

\* The characters encodeURIComponent leaves as they are, besides letters
\* and digits.
UnreservedMarks == {"-", "_", ".", "!", "~", "*", "'", "(", ")"}

\* encodeURIComponent of one character of the model's names.
EncodeChar(ch) ==
    IF ch \in WordChars \cup UnreservedMarks THEN <<ch>>
    ELSE CASE ch = " " -> <<"%", "2", "0">>
           [] ch = "/" -> <<"%", "2", "F">>
           [] ch = ":" -> <<"%", "3", "A">>
           [] ch = "&" -> <<"%", "2", "6">>
           [] ch = "=" -> <<"%", "3", "D">>
           [] ch = "?" -> <<"%", "3", "F">>

RECURSIVE encodeURIComponent(_)
encodeURIComponent(s) ==
    IF s = <<>> THEN <<>> ELSE EncodeChar(s[1]) \o encodeURIComponent(Tail(s))

\* queryPairs: `${encodeURIComponent(q)}=<${q}>` for every query parameter.
QueryPairs(queryParams) ==
    [i \in 1..Len(queryParams) |->
        encodeURIComponent(queryParams[i]) \o <<"=", "<">> \o queryParams[i] \o <<">">>]

QueryString(queryParams) ==
    IF Len(queryParams) > 0 THEN <<"?">> \o Join(QueryPairs(queryParams), <<"&">>)
    ELSE <<>>

\* A Record<string, string> is the sequence of its entries [k, v] in
\* insertion order (no key of the model is an integer index).
HasKey(headers, k) == \E i \in 1..Len(headers) : headers[i].k = k

\* headers[k], for a key present.
GetKey(headers, k) == headers[CHOOSE i \in 1..Len(headers) : headers[i].k = k].v

\* headers[k] = v
SetKey(headers, k, v) ==
    IF HasKey(headers, k)
    THEN [i \in 1..Len(headers) |-> IF headers[i].k = k THEN [k |-> k, v |-> v] ELSE headers[i]]
    ELSE Append(headers, [k |-> k, v |-> v])

Authorization == <<"a", "u", "t", "h", "o", "r", "i", "z", "a", "t", "i", "o", "n">>

BearerToken == <<"B", "e", "a", "r", "e", "r", " ", "<", "t", "o", "k", "e", "n", ">">>

\* The for loop over handler.params.headers, from header i on.
RECURSIVE InferredHeaders(_, _, _)
InferredHeaders(headers, hs, i) ==
    IF i > Len(hs) THEN headers
    ELSE LET h == hs[i]
         IN  IF HasKey(headers, h) THEN InferredHeaders(headers, hs, i + 1)
             ELSE IF ToLower(h) = Authorization
                  THEN InferredHeaders(SetKey(headers, h, BearerToken), hs, i + 1)
                  ELSE InferredHeaders(
                         SetKey(headers, h, <<"<">> \o normalizePlaceholder(h) \o <<">">>),
                         hs, i + 1)

CookieKey == <<"C", "o", "o", "k", "i", "e">>

\* cookies.map(n => `${n}=<${normalizePlaceholder(n)}>`).join('; ')
CookieString(cookies) ==
    Join([i \in 1..Len(cookies) |->
            cookies[i] \o <<"=", "<">> \o normalizePlaceholder(cookies[i]) \o <<">">>],
         <<";", " ">>)

\* headers after the Cookies block.
WithCookies(headers, cookies) ==
    IF Len(cookies) > 0 THEN SetKey(headers, CookieKey, CookieString(cookies))
    ELSE headers

ContentType == <<"C", "o", "n", "t", "e", "n", "t", "-", "T", "y", "p", "e">>

ApplicationJson == <<"a", "p", "p", "l", "i", "c", "a", "t", "i", "o", "n", "/", "j", "s", "o", "n">>

FormUrlencoded == <<"a", "p", "p", "l", "i", "c", "a", "t", "i", "o", "n", "/", "x", "-", "w", "w", "w", "-", "f", "o", "r", "m", "-", "u", "r", "l", "e", "n", "c", "o", "d", "e", "d">>

MultipartFormData == <<"m", "u", "l", "t", "i", "p", "a", "r", "t", "/", "f", "o", "r", "m", "-", "d", "a", "t", "a">>

\* headers['Content-Type'] = headers['Content-Type'] || dflt
WithContentType(headers, dflt) ==
    IF HasKey(headers, ContentType) /\ GetKey(headers, ContentType) # <<>>
    THEN headers
    ELSE SetKey(headers, ContentType, dflt)

\* The methods with a body, GET and ANY taken for two of them.
BodyMethods_All == {<<"P", "O", "S", "T">>, <<"P", "U", "T">>, <<"P", "A", "T", "C", "H">>, <<"D", "E", "L", "E", "T", "E">>, <<"G", "E", "T">>, <<"A", "N", "Y">>}

BodyMethods == {<<"P", "O", "S", "T">>, <<"P", "U", "T">>, <<"P", "A", "T", "C", "H">>, <<"D", "E", "L", "E", "T", "E">>}

\* JSON.stringify of a string: the quoted text, a double quote and a
\* backslash escaped.
RECURSIVE JsonEscape(_)
JsonEscape(s) ==
    IF s = <<>> THEN <<>>
    ELSE IF s[1] \in {"\"", "\\"} THEN <<"\\", s[1]>> \o JsonEscape(Tail(s))
    ELSE <<s[1]>> \o JsonEscape(Tail(s))

JsonString(s) == <<"\"">> \o JsonEscape(s) \o <<"\"">>

\* The class \s of the texts of the model.
Blanks == {" ", "\n", "\t"}

\* a.trim()
RECURSIVE TrimStart(_)
TrimStart(a) == IF a # <<>> /\ a[1] \in Blanks THEN TrimStart(Tail(a)) ELSE a

RECURSIVE TrimEnd(_)
TrimEnd(a) == IF a # <<>> /\ a[Len(a)] \in Blanks THEN TrimEnd(dropLast(a)) ELSE a

trim(a) == TrimEnd(TrimStart(a))

\* The values sampleValueForGoType returns: a string, a number, a boolean,
\* the ISO text of the current time, a list of items, an object of entries.
StringValue(s) == [kind |-> "string", text |-> s, items |-> <<>>]

NumberValue(digits) == [kind |-> "number", text |-> digits, items |-> <<>>]

BooleanValue(word) == [kind |-> "boolean", text |-> word, items |-> <<>>]

NowValue == [kind |-> "isoTime", text |-> <<>>, items |-> <<>>]

ListValue(items) == [kind |-> "list", text |-> <<>>, items |-> items]

ObjectValue(entries) == [kind |-> "object", text |-> <<>>, items |-> entries]

\* `<${normalizePlaceholder(fieldName)}>`
Placeholder(fieldName) == StringValue(<<"<">> \o normalizePlaceholder(fieldName) \o <<">">>)

\* { key: `<key>`, value: `<value>` }
KeyValuePlaceholder ==
    ObjectValue(<< [k |-> <<"k", "e", "y">>, v |-> StringValue(<<"<", "k", "e", "y", ">">>)],
                   [k |-> <<"v", "a", "l", "u", "e">>,
                    v |-> StringValue(<<"<", "v", "a", "l", "u", "e", ">">>)] >>)

\* /^map\[.*\]/.test(base): 'map[', then a ']' on the same line.
MapTypeTest(base) ==
    /\ IsPrefix(<<"m", "a", "p", "[">>, base)
    /\ \E j \in 5..Len(base) :
          /\ base[j] = "]"
          /\ \A k \in 5..(j - 1) : base[k] # "\n"

\* /^[A-Z][A-Za-z0-9_]*$/.test(base)
TypeNameTest(base) ==
    /\ Len(base) > 0
    /\ \E u \in 1..Len(UpperCase) : UpperCase[u] = base[1]
    /\ \A k \in 2..Len(base) : base[k] \in WordChars

IntTypes ==
    { <<"i", "n", "t">>, <<"i", "n", "t", "8">>, <<"i", "n", "t", "1", "6">>,
      <<"i", "n", "t", "3", "2">>, <<"i", "n", "t", "6", "4">>,
      <<"u", "i", "n", "t">>, <<"u", "i", "n", "t", "8">>, <<"u", "i", "n", "t", "1", "6">>,
      <<"u", "i", "n", "t", "3", "2">>, <<"u", "i", "n", "t", "6", "4">>,
      <<"u", "i", "n", "t", "p", "t", "r">> }

FloatTypes == { <<"f", "l", "o", "a", "t", "3", "2">>, <<"f", "l", "o", "a", "t", "6", "4">> }

\* switch (base)
SwitchBase(base, fieldName) ==
    IF base = <<"s", "t", "r", "i", "n", "g">> THEN Placeholder(fieldName)
    ELSE IF base \in IntTypes THEN NumberValue(<<"0">>)
    ELSE IF base \in FloatTypes THEN NumberValue(<<"0">>)
    ELSE IF base = <<"b", "o", "o", "l">> THEN BooleanValue(<<"f", "a", "l", "s", "e">>)
    ELSE IF base = <<"t", "i", "m", "e", ".", "T", "i", "m", "e">> THEN NowValue
    ELSE IF base = <<"j", "s", "o", "n", ".", "R", "a", "w", "M", "e", "s", "s", "a", "g", "e">>
    THEN ObjectValue(<<>>)
    ELSE IF TypeNameTest(base)
    THEN ObjectValue(<<[k |-> fieldName, v |-> Placeholder(fieldName)]>>)
    ELSE Placeholder(fieldName)

\* sampleValueForGoType without the '*' test: a pointer type falls to the
\* switch.
RECURSIVE sampleValueForGoType_NoPointer(_, _)
sampleValueForGoType_NoPointer(goType, fieldName) ==
    LET base == trim(goType)
    IN  IF IsPrefix(<<"[", "]">>, base)
        THEN ListValue(<<[k |-> <<>>,
                          v |-> sampleValueForGoType_NoPointer(SubSeq(base, 3, Len(base)), fieldName)]>>)
        ELSE IF MapTypeTest(base) THEN KeyValuePlaceholder
        ELSE SwitchBase(base, fieldName)

RECURSIVE sampleValueForGoType(_, _)
sampleValueForGoType(goType, fieldName) ==
    LET base == trim(goType)
    IN  IF IsPrefix(<<"*">>, base)
        THEN sampleValueForGoType(SubSeq(base, 2, Len(base)), fieldName)
        ELSE IF IsPrefix(<<"[", "]">>, base)
        THEN ListValue(<<[k |-> <<>>,
                          v |-> sampleValueForGoType(SubSeq(base, 3, Len(base)), fieldName)]>>)
        ELSE IF MapTypeTest(base) THEN KeyValuePlaceholder
        ELSE SwitchBase(base, fieldName)

\* The declared type texts of the struct fields of the model.
GoTypeText(goType) ==
    CASE goType = "string" -> <<"s", "t", "r", "i", "n", "g">>
      [] goType = "int" -> <<"i", "n", "t">>

\* JSON.stringify of a string or number value.
JsonScalar(v) ==
    CASE v.kind = "string" -> JsonString(v.text)
      [] v.kind = "number" -> v.text

\* The sample of every field is null.
JsonSample_Null(goType, fieldName) == <<"n", "u", "l", "l">>

\* JSON.stringify(sampleValueForGoType(goType, fieldName)) for the Go types
\* of the struct fields of the model.
JsonSample(goType, fieldName) ==
    JsonScalar(sampleValueForGoType(GoTypeText(goType), fieldName))

\* JSON.stringify(obj, null, 2) of the object built from jsonFields (a
\* non-empty list of distinct names).
JsonObject(jsonFields) ==
    <<"{", "\n">>
        \o Join([i \in 1..Len(jsonFields) |->
                    <<" ", " ">> \o JsonString(jsonFields[i].name) \o <<":", " ">>
                        \o JsonSample(jsonFields[i].goType, jsonFields[i].name)],
                <<",", "\n">>)
        \o <<"\n", "}">>

\* The Body block: the headers after it, dataFlag and bodyPart.
BodyBlock(params, method, headers) ==
    IF method \notin BodyMethods
    THEN [headers |-> headers, dataFlag |-> <<>>, bodyPart |-> <<>>]
    ELSE IF params.bodyType = "json"
    THEN [ headers  |-> WithContentType(headers, ApplicationJson),
           dataFlag |-> <<"-", "d">>,
           bodyPart |-> IF params.hasJsonFields /\ Len(params.jsonFields) > 0
                        THEN shellQuote(JsonObject(params.jsonFields))
                        ELSE <<"'", "{", "}", "'">> ]
    ELSE IF params.bodyType = "form"
    THEN [ headers  |-> WithContentType(headers, FormUrlencoded),
           dataFlag |-> <<"-", "-", "d", "a", "t", "a", "-", "u", "r", "l", "e", "n", "c", "o", "d", "e">>,
           bodyPart |-> IF Len(params.queryParams) > 0
                        THEN <<"'">> \o params.queryParams[1] \o <<"=", "<">>
                               \o normalizePlaceholder(params.queryParams[1])
                               \o <<">", "'">>
                        ELSE <<"'", "'">> ]
    ELSE IF params.bodyType = "multipart"
    THEN [ headers  |-> WithContentType(headers, MultipartFormData),
           dataFlag |-> <<"-", "F">>,
           bodyPart |-> <<"'">> \o <<"f", "i", "l", "e", "=", "@", "<", "p", "a", "t", "h", "_", "t", "o", "_", "f", "i", "l", "e", ">">> \o <<"'">> ]
    ELSE [headers |-> headers, dataFlag |-> <<>>, bodyPart |-> <<>>]

\* The separator of the parts: a blank, a backslash, a line break, a tab.
LineBreak == <<" ", "\\", "\n", "\t">>

\* The absent route of an unlinked handler.
NoRoute == [present |-> FALSE, method |-> <<>>, path |-> <<>>]

\* (route?.method || 'GET').toUpperCase(); the methods of the extractor are
\* upper case already.
CurlMethod(route) ==
    IF route.present /\ route.method # <<>> THEN route.method ELSE <<"G", "E", "T">>

\* route?.path || `/${handler.name}`
CurlPath(handler, route) ==
    IF route.present /\ route.path # <<>> THEN route.path ELSE <<"/">> \o handler.name

\* opts.baseUrl.replace(/\/$/, '')
CurlBaseUrl(opts) ==
    IF endsWith(opts.baseUrl, "/") THEN dropLast(opts.baseUrl) ELSE opts.baseUrl

\* url: `${baseUrl}${urlPath}${queryString}`
CurlUrl(handler, route, opts) ==
    CurlBaseUrl(opts)
        \o ReplacePathParams(CurlPath(handler, route), handler.params.pathParams, 1)
        \o QueryString(handler.params.queryParams)

\* The body block of a call, on the headers the blocks before it built.
CurlBody(handler, route, opts) ==
    BodyBlock(handler.params, CurlMethod(route),
              WithCookies(InferredHeaders(opts.defaultHeaders, handler.params.headers, 1),
                          handler.params.cookies))

\* headerFlags: `-H ${shellQuote(`${k}: ${v}`)}` for every entry, joined.
HeaderFlags(headers) ==
    Join([i \in 1..Len(headers) |->
            <<"-", "H", " ">> \o shellQuote(headers[i].k \o <<":", " ">> \o headers[i].v)],
         LineBreak)

\* parts
CurlParts(handler, route, opts) ==
    LET body        == CurlBody(handler, route, opts)
        headerFlags == HeaderFlags(body.headers)
    IN  << <<"c", "u", "r", "l">>, <<"-", "X", " ">> \o CurlMethod(route) >>
            \o (IF headerFlags # <<>> THEN <<headerFlags>> ELSE <<>>)
            \o (IF body.dataFlag # <<>> /\ body.bodyPart # <<>>
                THEN <<body.dataFlag \o <<" ">> \o body.bodyPart>> ELSE <<>>)
            \o <<shellQuote(CurlUrl(handler, route, opts))>>

\* const headers = { ...opts.defaultHeaders } with the spread left out:
\* headers is the defaultHeaders object itself.
HeadersIsCopy_Alias == FALSE

\* const headers = { ...opts.defaultHeaders }: headers is a new object
\* holding the entries of defaultHeaders, not the defaultHeaders object.
HeadersIsCopy == TRUE

\* opts after the call: the stores headers[h] = ..., headers['Cookie'] = ...
\* and headers['Content-Type'] = ... reach opts.defaultHeaders only when
\* headers is that object.
OptsAfterCurl(handler, route, opts) ==
    [opts EXCEPT !.defaultHeaders =
        IF HeadersIsCopy THEN @ ELSE CurlBody(handler, route, opts).headers]

generateCurl(handler, route, opts) == Join(CurlParts(handler, route, opts), LineBreak)

\* The sequences over S of at most n elements, no element twice: the lists
\* inferParamsFromBody returns.
DistinctSeqs(S, n) ==
    {q \in SeqsUpTo(S, n) : \A i, j \in 1..Len(q) : i # j => q[i] # q[j]}

\* Names read by accessor calls; one holds a quote character.
ParamNames == {<<"q">>, <<"a", "'", "b">>, <<"i", "d">>}

HeaderNames == {<<"X">>, <<"A", "u", "t", "h", "o", "r", "i", "z", "a", "t", "i", "o", "n">>}

CookieNames == {<<"s">>}

\* Field lists of a bound struct.
FieldLists ==
    { <<>>,
      << [name |-> <<"e", "m", "a", "i", "l">>, goType |-> "string"], [name |-> <<"a", "g", "e">>, goType |-> "int"] >>,
      << [name |-> <<"a", "'", "b">>, goType |-> "string"] >> }

\* HandlerParams as inferParamsFromBody returns them: lists without
\* duplicates, struct information only with a json body.
CurlParams ==
    { p \in [ pathParams     : DistinctSeqs({<<"i", "d">>}, MaxNames),
              queryParams    : DistinctSeqs(ParamNames, MaxNames),
              headers        : DistinctSeqs(HeaderNames, MaxNames),
              cookies        : DistinctSeqs(CookieNames, MaxNames),
              bodyType       : {"json", "form", "multipart", "none"},
              jsonStructName : {NoType, "T"},
              hasJsonFields  : BOOLEAN,
              jsonFields     : FieldLists ] :
        /\ p.hasJsonFields = (p.jsonStructName # NoType)
        /\ p.hasJsonFields => p.bodyType = "json"
        /\ ~p.hasJsonFields => p.jsonFields = <<>> }

CurlRoutes ==
    { NoRoute,
      [present |-> TRUE, method |-> <<"G", "E", "T">>, path |-> <<"/", "u", "/", ":", "i", "d">>],
      [present |-> TRUE, method |-> <<"P", "O", "S", "T">>, path |-> <<"/", "u", "/", ":", "i", "d">>],
      [present |-> TRUE, method |-> <<"A", "N", "Y">>, path |-> <<"/">>],
      [present |-> TRUE, method |-> <<"D", "E", "L", "E", "T", "E">>, path |-> <<"/">>],
      [present |-> TRUE, method |-> <<"H", "E", "A", "D">>, path |-> <<"/">>] }

CurlOptions ==
    [ baseUrl        : {<<"h", "t", "t", "p", ":", "/", "/", "h">>, <<"h", "t", "t", "p", ":", "/", "/", "h", "/">>},
      defaultHeaders : { <<>>, <<[k |-> <<"C", "o", "o", "k", "i", "e">>, v |-> <<"z">>]>>,
                         <<[k |-> <<"X">>, v |-> <<"1">>]>>,
                         <<[k |-> ContentType, v |-> <<"t">>]>>,
                         <<[k |-> <<"A", "u", "t", "h", "o", "r", "i", "z", "a", "t", "i", "o", "n">>,
                            v |-> <<"k">>]>> },
      useHttpieStyle : {FALSE} ]

InitCurl ==
    /\ \E p \in CurlParams : cHandler = [name |-> <<"H">>, params |-> p]
    /\ cRoute \in CurlRoutes
    /\ cOpts \in CurlOptions
    /\ cOut = <<>>
    /\ cPc = "ready"
    /\ GroupIdle
    /\ RoutesIdle
    /\ StructIdle
    /\ ParamsIdle
    /\ QuoteIdle
    /\ BraceIdle
    /\ HandlersIdle
    /\ LinkIdle
    /\ BaseUrlIdle
    /\ ShowIdle
    /\ CommandIdle
    /\ SampleIdle
    /\ OverlayIdle

\* generateCurl reads handler and route and writes to none of their
\* objects; the cHandler, cRoute and cOpts objects after the call.
CallGenerateCurl ==
    /\ cPc = "ready"
    /\ cOut' = generateCurl(cHandler, cRoute, cOpts)
    /\ cOpts' = OptsAfterCurl(cHandler, cRoute, cOpts)
    /\ cPc' = "done"
    /\ UNCHANGED <<cHandler, cRoute>>
    /\ UNCHANGED nonCurlVars

NextCurl == CallGenerateCurl

SpecCurl == InitCurl /\ [][NextCurl]_vars

\* The value the body literal of the command stands for.
BodyValue ==
    LET params == cHandler.params
    IN  CASE params.bodyType = "json" ->
               IF params.hasJsonFields /\ Len(params.jsonFields) > 0
               THEN JsonObject(params.jsonFields) ELSE <<"{", "}">>
          [] params.bodyType = "form" ->
               IF Len(params.queryParams) > 0
               THEN params.queryParams[1] \o <<"=", "<">>
                      \o normalizePlaceholder(params.queryParams[1]) \o <<">">>
               ELSE <<>>
          [] params.bodyType = "multipart" -> <<"f", "i", "l", "e", "=", "@", "<", "p", "a", "t", "h", "_", "t", "o", "_", "f", "i", "l", "e", ">">>
          [] OTHER -> <<>>

\* The command with every quoted value put through shellQuote.
EscapedCommand ==
    LET body        == CurlBody(cHandler, cRoute, cOpts)
        headerFlags == HeaderFlags(body.headers)
    IN  Join(<< <<"c", "u", "r", "l">>, <<"-", "X", " ">> \o CurlMethod(cRoute) >>
                \o (IF headerFlags # <<>> THEN <<headerFlags>> ELSE <<>>)
                \o (IF body.dataFlag # <<>>
                    THEN <<body.dataFlag \o <<" ">> \o shellQuote(BodyValue)>> ELSE <<>>)
                \o <<shellQuote(CurlUrl(cHandler, cRoute, cOpts))>>,
             LineBreak)

\* C10: every value generateCurl places between single quotes (each header
\* line, the URL, the JSON body, the form body pair) went through the
\* escaping step: the command is the one in which each of these literals is
\* shellQuote of its value.
C10_QuotedValuesEscaped ==
    cPc = "done" => cOut = EscapedCommand

\* sub occurs in s.
Contains(s, sub) ==
    \E i \in 1..(Len(s) - Len(sub) + 1) : SubSeq(s, i, i + Len(sub) - 1) = sub

\* The header argument of the command for the entry k: v.
HeaderArg(k, v) == <<"-", "H", " ">> \o shellQuote(k \o <<":", " ">> \o v)

\* C11: for every header name of the configured default headers, the
\* command carries that header with its configured value unchanged,
\* whatever headers, cookies and body encoding the handler infers.
C11_DefaultHeadersKept ==
    cPc = "done" =>
        \A i \in 1..Len(cOpts.defaultHeaders) :
            Contains(cOut, HeaderArg(cOpts.defaultHeaders[i].k, cOpts.defaultHeaders[i].v))

\* ------------------------------------------------------------------------
\* Handler extraction
\* ------------------------------------------------------------------------

\* No call: the call field of a token that is not a call.
NoCall == Call(<<>>, "", "other", <<>>, "")

\* A source text is the sequence of its tokens.  t is "{", "}", "call" (an
\* accessor or bind call, call), "func1" (the heading of a function with a
\* context parameter, up to its '{'), "func2" and "func2m" (the heading of a
\* factory, free or with a receiver, up to its '{'), "inner" (the heading
\* func(ctx *gin.Context) of a function literal).  Indexes into a text
\* count from 0 as in the source: index i is text[i + 1].
Tok(t, name, ctx, call) == [t |-> t, name |-> name, ctx |-> ctx, call |-> call]

OpenBrace == Tok("{", <<>>, <<>>, NoCall)

CloseBrace == Tok("}", <<>>, <<>>, NoCall)

CallTok(call) == Tok("call", <<>>, <<>>, call)

Min(a, b) == IF a < b THEN a ELSE b

Max(a, b) == IF a > b THEN a ELSE b

\* text.slice(start, end): a negative index counts from the end.
slice(text, start, end) ==
    LET n == Len(text)
        a == IF start < 0 THEN Max(n + start, 0) ELSE Min(start, n)
        b == IF end < 0 THEN Max(n + end, 0) ELSE Min(end, n)
    IN  SubSeq(text, a + 1, b)

\* The index of the first '}' behind openIndex, the nesting not counted.
RECURSIVE findMatchingBrace_FirstClose(_, _)
findMatchingBrace_FirstClose(text, openIndex) ==
    IF openIndex >= Len(text) THEN -1
    ELSE IF text[openIndex + 1].t = "}" THEN openIndex
    ELSE findMatchingBrace_FirstClose(text, openIndex + 1)

\* The for loop of findMatchingBrace, at index i with the depth so far.
RECURSIVE BraceLoop(_, _, _)
BraceLoop(text, i, depth) ==
    IF i >= Len(text) THEN -1
    ELSE LET ch == text[i + 1].t
         IN  IF ch = "{" THEN BraceLoop(text, i + 1, depth + 1)
             ELSE IF ch = "}"
                  THEN IF depth - 1 = 0 THEN i ELSE BraceLoop(text, i + 1, depth - 1)
                  ELSE BraceLoop(text, i + 1, depth)

\* findMatchingBrace taking the end of the text for a missing brace.
findMatchingBrace_OrEnd(text, openIndex) ==
    IF BraceLoop(text, openIndex, 0) = -1 THEN Len(text) - 1
    ELSE BraceLoop(text, openIndex, 0)

findMatchingBrace(text, openIndex) == BraceLoop(text, openIndex, 0)

\* bodyText of a shape-1 handler.
BodyText(text, bodyStart, bodyEnd) ==
    IF bodyEnd > bodyStart THEN slice(text, bodyStart, bodyEnd + 1) ELSE <<>>

BraceToks == {OpenBrace, CloseBrace, CallTok(LitCall(<<"c">>, "Query", <<"q">>))}

\* findMatchingBrace is called at the '{' a heading pattern ended with.
InitBrace ==
    /\ bText \in SeqsUpTo(BraceToks, MaxBraceLen)
    /\ bOpen \in {i \in 0..(Len(bText) - 1) : bText[i + 1].t = "{"}
    /\ bEnd = 0
    /\ bBody = <<>>
    /\ bPc = "ready"
    /\ GroupIdle
    /\ RoutesIdle
    /\ StructIdle
    /\ ParamsIdle
    /\ QuoteIdle
    /\ CurlIdle
    /\ HandlersIdle
    /\ LinkIdle
    /\ BaseUrlIdle
    /\ ShowIdle
    /\ CommandIdle
    /\ SampleIdle
    /\ OverlayIdle

CallFindMatchingBrace ==
    /\ bPc = "ready"
    /\ bEnd' = findMatchingBrace(bText, bOpen)
    /\ bBody' = BodyText(bText, bOpen, findMatchingBrace(bText, bOpen))
    /\ bPc' = "done"
    /\ UNCHANGED <<bText, bOpen>>
    /\ UNCHANGED nonBraceVars

NextBrace == CallFindMatchingBrace

SpecBrace == InitBrace /\ [][NextBrace]_vars

\* The running depth of text from index i to index j: +1 per '{', -1 per '}'.
Depth(text, i, j) ==
    Cardinality({k \in i..j : text[k + 1].t = "{"})
        - Cardinality({k \in i..j : text[k + 1].t = "}"})

\* The indexes behind i at which the depth counted from i is back at zero.
Balanced(text, i) == {j \in (i + 1)..(Len(text) - 1) : Depth(text, i, j) = 0}

\* C13: findMatchingBrace(text, i), text[i] an opening brace, returns the
\* smallest j > i at which the running depth counted from i returns to zero
\* and -1 when there is none; the body text of a shape-1 handler then begins
\* with that '{' and ends with that '}'.
C13_MatchingBrace ==
    bPc = "done" =>
        IF Balanced(bText, bOpen) = {}
        THEN bEnd = -1
        ELSE /\ bEnd \in Balanced(bText, bOpen)
             /\ \A j \in Balanced(bText, bOpen) : bEnd <= j
             /\ bBody = SubSeq(bText, bOpen + 1, bEnd + 1)
             /\ bBody[1].t = "{"
             /\ bBody[Len(bBody)].t = "}"

\* A nested block was closed before the brace matching the opening one.
C13_Witness ==
    /\ bPc = "done"
    /\ bEnd > bOpen + 3
    /\ \E k \in (bOpen + 1)..(bEnd - 1) : bText[k + 1].t = "}"

\* The calls of a stretch of text, in text order.
RECURSIVE CallsOf(_)
CallsOf(text) ==
    IF text = <<>> THEN <<>>
    ELSE IF text[1].t = "call" THEN <<text[1].call>> \o CallsOf(Tail(text))
    ELSE CallsOf(Tail(text))

\* fullText as inferParamsFromBody reads it: the struct and variable
\* declarations of the document.
FullText(doc) == [structs |-> doc.structs, varDecls |-> doc.varDecls]

\* innerCtxParam.exec(inner): the context parameter of the first function
\* literal heading in inner, undefined when there is none.
RECURSIVE InnerCtx(_)
InnerCtx(inner) ==
    IF inner = <<>> THEN Undefined
    ELSE IF inner[1].t = "inner" THEN inner[1].ctx
    ELSE InnerCtx(Tail(inner))

\* The handler pushed for a match of pattern1 whose heading is at index.
Handler1(doc, index) ==
    LET text             == doc.text
        bodyStart        == index + 1
        bodyEnd          == findMatchingBrace(text, bodyStart)
        contextParamName == text[index + 1].ctx
        bodyText         == BodyText(text, bodyStart, bodyEnd)
    IN  [ name             |-> text[index + 1].name,
          filePath         |-> doc.filePath,
          index            |-> index,
          contextParamName |-> contextParamName,
          params           |-> inferParamsFromBody(CallsOf(bodyText), contextParamName,
                                                   FullText(doc)) ]

\* The handler pushed for a match of pattern2 or pattern2Method.
Handler2(doc, index) ==
    LET text       == doc.text
        startIndex == index + 1
        bodyEnd    == findMatchingBrace(text, startIndex)
        inner      == slice(text, startIndex, bodyEnd + 1)
        ctxVar     == InnerCtx(inner)
    IN  [ name             |-> text[index + 1].name,
          filePath         |-> doc.filePath,
          index            |-> index,
          contextParamName |-> ctxVar,
          params           |-> inferParamsFromBody(CallsOf(inner), ctxVar, FullText(doc)) ]

\* while ((m = pattern.exec(text))) for the pattern of heading shape, from
\* index i on.
RECURSIVE PatternLoop(_, _, _)
PatternLoop(doc, shape, i) ==
    IF i >= Len(doc.text) THEN <<>>
    ELSE IF doc.text[i + 1].t = shape
         THEN << IF shape = "func1" THEN Handler1(doc, i) ELSE Handler2(doc, i) >>
                \o PatternLoop(doc, shape, i + 1)
         ELSE PatternLoop(doc, shape, i + 1)

findHandlersInText(doc) ==
    PatternLoop(doc, "func1", 0) \o PatternLoop(doc, "func2", 0)
        \o PatternLoop(doc, "func2m", 0)

Func1(name, ctx) == Tok("func1", name, ctx, NoCall)

Func2(name) == Tok("func2", name, <<>>, NoCall)

Func2Method(name) == Tok("func2m", name, <<>>, NoCall)

InnerFunc(ctx) == Tok("inner", <<>>, ctx, NoCall)

QueryCall == CallTok(LitCall(<<"c">>, "Query", <<"q">>))

ParamCall == CallTok(LitCall(<<"c">>, "Param", <<"i", "d">>))

BindCall == CallTok(Call(<<"c">>, "BindJSON", "structLit", <<>>, "T"))

\* Stretches of text: function definitions of the three shapes, with the
\* closing brace or without it, and a stray closing brace.
TextPieces ==
    { <<Func1(<<"H">>, <<"c">>), OpenBrace, QueryCall, CloseBrace>>,
      <<Func1(<<"H">>, <<"c">>), OpenBrace, OpenBrace, BindCall, CloseBrace, ParamCall,
        CloseBrace>>,
      <<Func1(<<"H">>, <<"c">>), OpenBrace, QueryCall>>,
      <<Func1(<<"H">>, Undefined), OpenBrace, OpenBrace, BindCall, CloseBrace>>,
      <<Func2(<<"K">>), OpenBrace, InnerFunc(<<"c">>), OpenBrace, QueryCall, CloseBrace,
        CloseBrace>>,
      <<Func2(<<"K">>), OpenBrace, InnerFunc(<<"c">>), OpenBrace, BindCall, CloseBrace>>,
      <<Func2(<<"K">>), OpenBrace, CloseBrace>>,
      <<Func2Method(<<"M">>), OpenBrace, InnerFunc(<<"c">>), OpenBrace, ParamCall,
        CloseBrace, CloseBrace>>,
      <<Func2Method(<<"M">>), OpenBrace, InnerFunc(<<"c">>), OpenBrace, QueryCall>>,
      <<CloseBrace>> }

\* The pieces of ps one after another.
RECURSIVE Flatten(_)
Flatten(ps) == IF ps = <<>> THEN <<>> ELSE ps[1] \o Flatten(Tail(ps))

\* A document with the text given and the declarations of SampleText.
DocOf(text) ==
    [ filePath |-> "f1", text |-> text,
      structs |-> SampleText.structs, varDecls |-> SampleText.varDecls ]

InitHandlers ==
    /\ \E ps \in SeqsUpTo(TextPieces, MaxDefs) : hDoc = DocOf(Flatten(ps))
    /\ hHandlers = <<>>
    /\ hPc = "ready"
    /\ GroupIdle
    /\ RoutesIdle
    /\ StructIdle
    /\ ParamsIdle
    /\ QuoteIdle
    /\ CurlIdle
    /\ BraceIdle
    /\ LinkIdle
    /\ BaseUrlIdle
    /\ ShowIdle
    /\ CommandIdle
    /\ SampleIdle
    /\ OverlayIdle

CallFindHandlersInText ==
    /\ hPc = "ready"
    /\ hHandlers' = findHandlersInText(hDoc)
    /\ hPc' = "done"
    /\ UNCHANGED hDoc
    /\ UNCHANGED nonHandlersVars

NextHandlers == CallFindHandlersInText

SpecHandlers == InitHandlers /\ [][NextHandlers]_vars

\* The RequestShape of a handler whose body is not available.
NoShape ==
    [ pathParams |-> <<>>, queryParams |-> <<>>, headers |-> <<>>, cookies |-> <<>>,
      bodyType |-> "none", jsonStructName |-> NoType, hasJsonFields |-> FALSE,
      jsonFields |-> <<>> ]

\* The handlers returned whose opening brace has no matching closing brace.
Unclosed ==
    {k \in 1..Len(hHandlers) : Balanced(hDoc.text, hHandlers[k].index + 1) = {}}

\* C12: when the opening brace of a matched handler, of any of the three
\* shapes, has no matching closing brace, the handler's RequestShape has
\* empty path, query, header and cookie sets, body classification 'none'
\* and no JSON struct information: no text behind the brace is scanned.
C12_UnclosedBodyUnavailable ==
    hPc = "done" => \A k \in Unclosed : hHandlers[k].params = NoShape

\* A factory and a context-parameter function with unclosed bodies, calls
\* behind their opening braces, were extracted.
C12_Witness ==
    /\ hPc = "done"
    /\ \E k \in Unclosed :
          /\ hDoc.text[hHandlers[k].index + 1].t = "func2"
          /\ Len(hDoc.text) >= hHandlers[k].index + 5
          /\ hDoc.text[hHandlers[k].index + 5].t = "call"
    /\ \E k \in Unclosed :
          /\ hDoc.text[hHandlers[k].index + 1].t = "func1"
          /\ Len(hDoc.text) >= hHandlers[k].index + 3
          /\ hDoc.text[hHandlers[k].index + 3].t = "call"

\* C15: findHandlersInText returns the handlers of a file in order of
\* first appearance in the text: of any two handlers returned, the one
\* whose definition starts earlier in the text comes first, also when they
\* are of different shapes.
C15_HandlersInTextOrder ==
    hPc = "done" =>
        \A i, j \in 1..Len(hHandlers) :
            i < j => hHandlers[i].index < hHandlers[j].index

\* ------------------------------------------------------------------------
\* Linking handlers to routes
\* ------------------------------------------------------------------------

\* arr.push(r) at the front of arr.
PushRoute_Front(arr, r) == <<r>> \o arr

\* arr.push(r)
PushRoute(arr, r) == Append(arr, r)

\* map.get(k) || []
MapGetOrEmpty(map, k) == IF k \in DOMAIN map THEN map[k] ELSE <<>>

\* The for loop over routes, from route i on.
RECURSIVE LinkMap(_, _, _)
LinkMap(map, routes, i) ==
    IF i > Len(routes) THEN map
    ELSE LET r   == routes[i]
             arr == PushRoute(MapGetOrEmpty(map, r.handlerName), r)
         IN  LinkMap(MapSet(map, r.handlerName, arr), routes, i + 1)

\* An entry { ...h, routes } is the record of h and routes.
linkHandlersToRoutes(handlers, routes) ==
    LET map == LinkMap(EmptyMap, routes, 1)
    IN  [i \in 1..Len(handlers) |->
            [handler |-> handlers[i], routes |-> MapGetOrEmpty(map, handlers[i].name)]]

\* Handlers by name and file: two of them share the name H.
LinkHandlers ==
    { [name |-> "H", filePath |-> 1], [name |-> "K", filePath |-> 1],
      [name |-> "H", filePath |-> 2] }

\* Routes: of H, of K, and of a name no handler has.
LinkRoutes ==
    { [method |-> "GET", path |-> <<"/", "a">>, handlerName |-> "H", filePath |-> 1],
      [method |-> "POST", path |-> <<"/", "b">>, handlerName |-> "H", filePath |-> 2],
      [method |-> "GET", path |-> <<"/", "a">>, handlerName |-> "K", filePath |-> 1],
      [method |-> "ANY", path |-> <<"/">>, handlerName |-> "Z", filePath |-> 1] }

InitLink ==
    /\ lHandlers \in SeqsUpTo(LinkHandlers, MaxLinked)
    /\ lRoutes \in SeqsUpTo(LinkRoutes, MaxLinked)
    /\ lOut = <<>>
    /\ lPc = "ready"
    /\ GroupIdle
    /\ RoutesIdle
    /\ StructIdle
    /\ ParamsIdle
    /\ QuoteIdle
    /\ CurlIdle
    /\ BraceIdle
    /\ HandlersIdle
    /\ BaseUrlIdle
    /\ ShowIdle
    /\ CommandIdle
    /\ SampleIdle
    /\ OverlayIdle

CallLinkHandlersToRoutes ==
    /\ lPc = "ready"
    /\ lOut' = linkHandlersToRoutes(lHandlers, lRoutes)
    /\ lPc' = "done"
    /\ UNCHANGED <<lHandlers, lRoutes>>
    /\ UNCHANGED nonLinkVars

NextLink == CallLinkHandlersToRoutes

SpecLink == InitLink /\ [][NextLink]_vars

\* The routes of lRoutes that name the handler name, in their order.
RoutesNaming(name) ==
    LET NamesIt(r) == r.handlerName = name IN SelectSeq(lRoutes, NamesIt)

\* C14: linkHandlersToRoutes returns one entry per input handler, in input
\* order, whose routes are exactly the input routes with handlerName equal
\* to the handler's name, in input order; a handler no route references
\* gets an empty list, handlers sharing a name each get all routes of it.
C14_LinkedRoutes ==
    lPc = "done" =>
        /\ Len(lOut) = Len(lHandlers)
        /\ \A i \in 1..Len(lOut) :
              /\ lOut[i].handler = lHandlers[i]
              /\ lOut[i].routes = RoutesNaming(lHandlers[i].name)

\* Two handlers of one name got the same two routes, and a handler no
\* route names got none.
C14_Witness ==
    /\ lPc = "done"
    /\ \E i, j \in 1..Len(lOut) :
          /\ i # j
          /\ lHandlers[i].name = lHandlers[j].name
          /\ Len(lOut[i].routes) = 2
          /\ lOut[i].routes[1] # lOut[i].routes[2]
    /\ \E i \in 1..Len(lOut) : lOut[i].routes = <<>>

\* ------------------------------------------------------------------------
\* Base address inference
\* ------------------------------------------------------------------------

\* lit stands in text at index i.
LitAt(text, i, lit) ==
    i + Len(lit) <= Len(text) /\ SubSeq(text, i + 1, i + Len(lit)) = lit

\* The index behind \s* from index i.
RECURSIVE SkipBlanks(_, _)
SkipBlanks(text, i) ==
    IF i < Len(text) /\ text[i + 1] \in Blanks THEN SkipBlanks(text, i + 1) ELSE i

\* The index of the first double quote from index i on, -1 without one.
RECURSIVE NextQuoteAt(_, _)
NextQuoteAt(text, i) ==
    IF i >= Len(text) THEN -1
    ELSE IF text[i + 1] = "\"" THEN i
    ELSE NextQuoteAt(text, i + 1)

\* No match of a pattern.
NoMatch == [found |-> FALSE, index |-> -1, addr |-> <<>>, lastIndex |-> -1]

\* \s*\(\s*"([^"]*)" from index i, for a match that began at index: the
\* literal captured and the index behind the match.
LiteralArg(text, index, i) ==
    LET open == SkipBlanks(text, i)
        quot == SkipBlanks(text, open + 1)
        last == NextQuoteAt(text, quot + 1)
    IN  IF LitAt(text, open, <<"(">>) /\ LitAt(text, quot, <<"\"">>) /\ last # -1
        THEN [ found |-> TRUE, index |-> index,
               addr |-> SubSeq(text, quot + 2, last), lastIndex |-> last + 1 ]
        ELSE NoMatch

\* runRe, /\.[Rr]un(?:TLS)?\s*\(\s*"([^"]*)"/, at index i.
RunAt(text, i) ==
    IF LitAt(text, i, <<".", "R", "u", "n">>) \/ LitAt(text, i, <<".", "r", "u", "n">>)
    THEN IF LitAt(text, i + 4, <<"T", "L", "S">>) THEN LiteralArg(text, i, i + 7)
         ELSE LiteralArg(text, i, i + 4)
    ELSE NoMatch

\* listenRe, /http\.ListenAndServe\s*\(\s*"([^"]*)"/, at index i.
ListenAt(text, i) ==
    IF LitAt(text, i, <<"h", "t", "t", "p", ".", "L", "i", "s", "t", "e", "n", "A", "n", "d", "S", "e", "r", "v", "e">>) THEN LiteralArg(text, i, i + 19)
    ELSE NoMatch

\* /\.RunTLS\s*\(/ at index i.
RunTLSAt(text, i) ==
    LitAt(text, i, <<".", "R", "u", "n", "T", "L", "S">>) /\ LitAt(text, SkipBlanks(text, i + 7), <<"(">>)

\* /\.[Rr]un\s*\(\s*\)/ at index i.
RunNoArgsAt(text, i) ==
    /\ LitAt(text, i, <<".", "R", "u", "n">>) \/ LitAt(text, i, <<".", "r", "u", "n">>)
    /\ LitAt(text, SkipBlanks(text, i + 4), <<"(">>)
    /\ LitAt(text, SkipBlanks(text, SkipBlanks(text, i + 4) + 1), <<")">>)

\* The index behind \d+ from index i, -1 without a digit at i.
RECURSIVE SkipDigits(_, _)
SkipDigits(a, i) ==
    IF i < Len(a) /\ a[i + 1] \in {Digits[k] : k \in 1..Len(Digits)}
    THEN LET j == SkipDigits(a, i + 1) IN IF j = -1 THEN i + 1 ELSE j
    ELSE -1

\* \d+ and then the character ch, from index i: the index behind, or -1.
DigitsThen(a, i, ch) ==
    IF i = -1 THEN -1
    ELSE LET j == SkipDigits(a, i)
         IN  IF j # -1 /\ LitAt(a, j, <<ch>>) THEN j + 1 ELSE -1

\* /^\d+\.\d+\.\d+\.\d+:\d+$/
IsIpPort(a) ==
    LET port == DigitsThen(a, DigitsThen(a, DigitsThen(a, DigitsThen(a, 0, "."), "."), "."), ":")
    IN  port # -1 /\ SkipDigits(a, port) = Len(a)

\* /^[A-Za-z0-9_.-]+:\d+$/
IsHostPort(a) ==
    \E c \in 1..(Len(a) - 1) :
        /\ a[c + 1] = ":"
        /\ \A k \in 1..c : a[k] \in WordChars \cup {".", "-"}
        /\ SkipDigits(a, c + 1) = Len(a)

normalizeAddr(addr) ==
    LET a == trim(addr)
    IN  IF a = <<>> THEN Undefined
        ELSE IF a[1] = ":" THEN <<"l", "o", "c", "a", "l", "h", "o", "s", "t">> \o a
        ELSE IF IsIpPort(a) THEN a
        ELSE IF IsHostPort(a) THEN a
        ELSE Undefined

\* isTLS of a runRe match at index.
IsTLS(text, index) ==
    LET window == slice(text, index - 10, index + 10)
    IN  \E i \in 0..(Len(window) - 1) : RunTLSAt(window, i)

Http == <<"h", "t", "t", "p">>

Https == <<"h", "t", "t", "p", "s">>

\* No address inferred from a file.
NoAddr == [found |-> FALSE, scheme |-> <<>>, hostPort |-> <<>>]

\* while ((m = runRe.exec(text))), from index i on: the first match with a
\* usable address.
RECURSIVE RunLoop(_, _)
RunLoop(text, i) ==
    IF i >= Len(text) THEN NoAddr
    ELSE LET m == RunAt(text, i)
         IN  IF ~m.found THEN RunLoop(text, i + 1)
             ELSE LET hp == normalizeAddr(m.addr)
                  IN  IF hp # Undefined
                      THEN [ found |-> TRUE,
                             scheme |-> IF IsTLS(text, m.index) THEN Https ELSE Http,
                             hostPort |-> hp ]
                      ELSE RunLoop(text, m.lastIndex)

\* while ((m = listenRe.exec(text))), from index i on.
RECURSIVE ListenLoop(_, _)
ListenLoop(text, i) ==
    IF i >= Len(text) THEN NoAddr
    ELSE LET m == ListenAt(text, i)
         IN  IF ~m.found THEN ListenLoop(text, i + 1)
             ELSE LET hp == normalizeAddr(m.addr)
                  IN  IF hp # Undefined
                      THEN [found |-> TRUE, scheme |-> Http, hostPort |-> hp]
                      ELSE ListenLoop(text, m.lastIndex)

\* The first for loop over goFiles, from file f on: inferred.
RECURSIVE InferLoop(_, _)
InferLoop(docs, f) ==
    IF f > Len(docs) THEN NoAddr
    ELSE LET run == RunLoop(docs[f], 0)
         IN  IF run.found THEN run
             ELSE LET listen == ListenLoop(docs[f], 0)
                  IN  IF listen.found THEN listen ELSE InferLoop(docs, f + 1)

\* /\.[Rr]un\s*\(\s*\)/.test(text)
HasRunNoArgs(text) == \E i \in 0..(Len(text) - 1) : RunNoArgsAt(text, i)

DefaultAddress == <<"h", "t", "t", "p", ":", "/", "/", "l", "o", "c", "a", "l", "h", "o", "s", "t", ":", "8", "0", "8", "0">>

\* The inference taking each file by itself: its literal address, else the
\* default address for its zero-argument call, else the next file.
RECURSIVE FileByFile(_, _)
FileByFile(docs, f) ==
    IF f > Len(docs) THEN Undefined
    ELSE LET inferred == InferLoop(<<docs[f]>>, 1)
         IN  IF inferred.found
             THEN inferred.scheme \o <<":", "/", "/">> \o inferred.hostPort
             ELSE IF HasRunNoArgs(docs[f]) THEN DefaultAddress
             ELSE FileByFile(docs, f + 1)

detectBaseUrlFromWorkspace_FileByFile(docs) == FileByFile(docs, 1)

detectBaseUrlFromWorkspace(docs) ==
    LET inferred == InferLoop(docs, 1)
    IN  IF inferred.found THEN inferred.scheme \o <<":", "/", "/">> \o inferred.hostPort
        ELSE IF \E f \in 1..Len(docs) : HasRunNoArgs(docs[f]) THEN DefaultAddress
        ELSE Undefined

\* Every Go file begins with its package clause.
PackageClause == <<"p", "a", "c", "k", "a", "g", "e", " ", "m", "\n">>

\* Server-start call sites, one to a line: Run and RunTLS with a bare port,
\* ListenAndServe with host and port, Run with a literal that is no
\* address, Run without arguments, RunTLS with blanks before its argument
\* list.
StartSites ==
    { <<"r", ".", "R", "u", "n", "(", "\"", ":", "1", "\"", ")", "\n">>,
      <<"r", ".", "R", "u", "n", "T", "L", "S", "(", "\"", ":", "2", "\"", ")", "\n">>,
      <<"h", "t", "t", "p", ".", "L", "i", "s", "t", "e", "n", "A", "n", "d", "S", "e", "r", "v", "e", "(", "\"", "h", ":", "3", "\"", ")", "\n">>,
      <<"r", ".", "R", "u", "n", "(", "\"", "x", "\"", ")", "\n">>,
      <<"r", ".", "R", "u", "n", "(", ")", "\n">>,
      <<"r", ".", "R", "u", "n", "T", "L", "S", " ", " ", " ", "(", "\"", ":", "4", "\"", ")", "\n">> }

\* The text of file d: the package clause and the call sites owner gives d.
RECURSIVE SitesOf(_, _, _, _)
SitesOf(sites, owner, d, i) ==
    IF i > Len(sites) THEN <<>>
    ELSE IF owner[i] = d THEN sites[i] \o SitesOf(sites, owner, d, i + 1)
    ELSE SitesOf(sites, owner, d, i + 1)

InitBaseUrl ==
    /\ \E n \in 1..MaxFiles :
       \E sites \in SeqsUpTo(StartSites, MaxStarts) :
       \E owner \in [1..Len(sites) -> 1..n] :
          uDocs = [d \in 1..n |-> PackageClause \o SitesOf(sites, owner, d, 1)]
    /\ uResult = <<>>
    /\ uPc = "ready"
    /\ GroupIdle
    /\ RoutesIdle
    /\ StructIdle
    /\ ParamsIdle
    /\ QuoteIdle
    /\ CurlIdle
    /\ BraceIdle
    /\ HandlersIdle
    /\ LinkIdle
    /\ ShowIdle
    /\ CommandIdle
    /\ SampleIdle
    /\ OverlayIdle

CallDetectBaseUrlFromWorkspace ==
    /\ uPc = "ready"
    /\ uResult' = detectBaseUrlFromWorkspace(uDocs)
    /\ uPc' = "done"
    /\ UNCHANGED uDocs
    /\ UNCHANGED nonBaseUrlVars

NextBaseUrl == CallDetectBaseUrlFromWorkspace

SpecBaseUrl == InitBaseUrl /\ [][NextBaseUrl]_vars

\* The indexes of text at which a server-start call with a usable literal
\* address begins.
UsableSites(text) ==
    {i \in 0..(Len(text) - 1) :
        \/ RunAt(text, i).found /\ normalizeAddr(RunAt(text, i).addr) # Undefined
        \/ ListenAt(text, i).found /\ normalizeAddr(ListenAt(text, i).addr) # Undefined}

\* The address literal of the call at index i of text.
SiteAddr(text, i) ==
    IF RunAt(text, i).found THEN RunAt(text, i).addr ELSE ListenAt(text, i).addr

\* A literal address as the inference renders it: a bare ':port' with
\* localhost before it.
Rendered(addr) ==
    IF trim(addr)[1] = ":"
    THEN <<"l", "o", "c", "a", "l", "h", "o", "s", "t">> \o trim(addr)
    ELSE trim(addr)

\* The address of the call at index i of text: https for the TLS variant.
SiteAddress(text, i) ==
    (IF LitAt(text, i, <<".", "R", "u", "n", "T", "L", "S">>) THEN Https ELSE Http)
        \o <<":", "/", "/">> \o Rendered(SiteAddr(text, i))

\* The files with a usable literal address.
UsableFiles == {f \in 1..Len(uDocs) : UsableSites(uDocs[f]) # {}}

FirstOf(S) == CHOOSE x \in S : \A y \in S : x <= y

\* C16: detectBaseUrlFromWorkspace returns the address of the first
\* server-start call with a usable literal address in scan order (files in
\* enumeration order, call sites in text order within a file), https when
\* that call is the TLS variant and http otherwise, a bare ':port' rendered
\* as 'localhost:port'.
C16_FirstLiteralAddress ==
    (uPc = "done" /\ UsableFiles # {}) =>
        LET text == uDocs[FirstOf(UsableFiles)]
        IN  uResult = SiteAddress(text, FirstOf(UsableSites(text)))

\* The addresses of the usable literals of all files, under either scheme.
LiteralAddresses ==
    UNION { {scheme \o <<":", "/", "/">> \o Rendered(SiteAddr(uDocs[f], i)) :
                i \in UsableSites(uDocs[f])} : f \in 1..Len(uDocs), scheme \in {Http, Https} }

\* C17: without a usable literal address in any file the result is
\* 'http://localhost:8080' if some file holds a zero-argument start call
\* and undefined otherwise; a literal address in any file wins over a
\* zero-argument start call in an earlier file.
C17_DefaultOnlyWithoutLiteral ==
    uPc = "done" =>
        IF UsableFiles = {}
        THEN uResult = (IF \E f \in 1..Len(uDocs) : HasRunNoArgs(uDocs[f])
                        THEN DefaultAddress ELSE Undefined)
        ELSE uResult \in LiteralAddresses

\* The first file holds a zero-argument start call and no literal address,
\* a later file holds a literal address, and the literal was returned.
C17_Witness ==
    /\ uPc = "done"
    /\ Len(uDocs) >= 2
    /\ HasRunNoArgs(uDocs[1])
    /\ 1 \notin UsableFiles
    /\ UsableFiles # {}
    /\ uResult \in LiteralAddresses

\* ------------------------------------------------------------------------
\* Showing the command
\* ------------------------------------------------------------------------

\* A configuration value: set by the user or not.
NotSet == [set |-> FALSE, value |-> <<>>]

UserSet(value) == [set |-> TRUE, value |-> value]

\* cfg.get(key, dflt)
CfgGet(setting, dflt) == IF setting.set THEN setting.value ELSE dflt

readOptions(cfg) ==
    [ baseUrl        |-> CfgGet(cfg.baseUrl, DefaultAddress),
      defaultHeaders |-> CfgGet(cfg.defaultHeaders, <<>>),
      useHttpieStyle |-> CfgGet(cfg.useHttpieStyle, FALSE) ]

\* withInferredBaseUrl with the inference of the workspace docs.
withInferredBaseUrl(opts, docs) ==
    IF opts.baseUrl = DefaultAddress
    THEN LET inferred == detectBaseUrlFromWorkspace(docs)
         IN  IF inferred # Undefined /\ inferred # <<>>
             THEN [opts EXCEPT !.baseUrl = inferred]
             ELSE opts
    ELSE opts

\* Values of gurl.baseUrl: not set, set to other addresses, set to the
\* address that is also the default.
BaseUrlSettings ==
    { NotSet, UserSet(<<"h", "t", "t", "p", ":", "/", "/", "h">>), UserSet(<<"h", "t", "t", "p", ":", "/", "/", "h", "/">>), UserSet(DefaultAddress) }

ShowConfigs ==
    [ baseUrl        : BaseUrlSettings,
      defaultHeaders : {NotSet, UserSet(<<[k |-> <<"X">>, v |-> <<"1">>]>>)},
      useHttpieStyle : {NotSet} ]

\* Workspaces: without a server-start call, with Run(":1"), with
\* RunTLS(":2"), with Run().
ShowWorkspaces ==
    { <<PackageClause>>,
      <<PackageClause \o <<"r", ".", "R", "u", "n", "(", "\"", ":", "1", "\"", ")", "\n">>>>,
      <<PackageClause, PackageClause \o <<"r", ".", "R", "u", "n", "T", "L", "S", "(", "\"", ":", "2", "\"", ")", "\n">>>>,
      <<PackageClause \o <<"r", ".", "R", "u", "n", "(", ")", "\n">>>> }

\* Handlers that read query parameters only.
ShowParams ==
    {p \in CurlParams :
        /\ p.bodyType = "none"
        /\ p.pathParams = <<>> /\ p.headers = <<>> /\ p.cookies = <<>>}

InitShow ==
    /\ wCfg \in ShowConfigs
    /\ wDocs \in ShowWorkspaces
    /\ \E p \in ShowParams : wHandler = [name |-> <<"H">>, params |-> p]
    /\ wRoute \in CurlRoutes
    /\ wOpts = <<>>
    /\ wCurl = <<>>
    /\ wPc = "ready"
    /\ GroupIdle
    /\ RoutesIdle
    /\ StructIdle
    /\ ParamsIdle
    /\ QuoteIdle
    /\ CurlIdle
    /\ BraceIdle
    /\ HandlersIdle
    /\ LinkIdle
    /\ BaseUrlIdle
    /\ CommandIdle
    /\ SampleIdle
    /\ OverlayIdle

\* const opts = await withInferredBaseUrl(readOptions())
ShowOptions ==
    /\ wPc = "ready"
    /\ wOpts' = withInferredBaseUrl(readOptions(wCfg), wDocs)
    /\ wPc' = "options"
    /\ UNCHANGED <<wCfg, wDocs, wHandler, wRoute, wCurl>>
    /\ UNCHANGED nonShowVars

\* const curl = generateCurl(handler, route, opts)
ShowGenerate ==
    /\ wPc = "options"
    /\ wCurl' = generateCurl(wHandler, wRoute, wOpts)
    /\ wPc' = "done"
    /\ UNCHANGED <<wCfg, wDocs, wHandler, wRoute, wOpts>>
    /\ UNCHANGED nonShowVars

NextShow == ShowOptions \/ ShowGenerate

SpecShow == InitShow /\ [][NextShow]_vars

\* The command generated for the base address base.
CommandWith(base) ==
    generateCurl(wHandler, wRoute, [readOptions(wCfg) EXCEPT !.baseUrl = base])

\* C18: when the user has set gurl.baseUrl, the generated command uses that
\* value and an inferred server address never replaces it; the inferred
\* address is used only when the setting was left at its default.
C18_ExplicitBaseUrlKept ==
    (wPc = "done" /\ wCfg.baseUrl.set) =>
        /\ wOpts.baseUrl = wCfg.baseUrl.value
        /\ wCurl = CommandWith(wCfg.baseUrl.value)

\* ------------------------------------------------------------------------
\* The command gurl.generateForWorkspace
\* ------------------------------------------------------------------------

\* A method name of a RouteRegistration as the text generateCurl reads.
MethodChars(method) ==
    CASE method = "GET" -> <<"G", "E", "T">>
      [] method = "POST" -> <<"P", "O", "S", "T">>
      [] method = "PUT" -> <<"P", "U", "T">>
      [] method = "DELETE" -> <<"D", "E", "L", "E", "T", "E">>
      [] method = "PATCH" -> <<"P", "A", "T", "C", "H">>
      [] method = "OPTIONS" -> <<"O", "P", "T", "I", "O", "N", "S">>
      [] method = "HEAD" -> <<"H", "E", "A", "D">>
      [] method = "ANY" -> <<"A", "N", "Y">>

\* The route argument of showCurl for a RouteRegistration.
RouteArg(r) == [present |-> TRUE, method |-> MethodChars(r.method), path |-> r.path]

\* scanWorkspace: handlers.push(...fileHandlers) for the documents from i
\* on.
RECURSIVE FileHandlers(_, _)
FileHandlers(docs, i) ==
    IF i > Len(docs) THEN <<>>
    ELSE findHandlersInText(docs[i]) \o FileHandlers(docs, i + 1)

\* scanWorkspace with the handlers found in the texts of the documents.
ScanWorkspaceTexts(docs) ==
    LET handlers     == FileHandlers(docs, 1)
        handlerNames == {handlers[i].name : i \in 1..Len(handlers)}
    IN  [ handlers |-> handlers,
          routes   |-> ByNamesDocs(docs, handlerNames, 1) ]

\* The items of showCurlQuickPick: the routes, or one item without route.
QuickPickItems(routes) ==
    IF Len(routes) > 0 THEN [i \in 1..Len(routes) |-> RouteArg(routes[i])]
    ELSE <<NoRoute>>

GetUser == <<"G", "e", "t", "U", "s", "e", "r">>

SignUp == <<"S", "i", "g", "n", "U", "p">>

ParamId == CallTok(LitCall(<<"c">>, "Param", <<"i", "d">>))

QueryFilter == CallTok(LitCall(<<"c">>, "Query", <<"f", "i", "l", "t", "e", "r">>))

BindSignup(accessor) == CallTok(Call(<<"c">>, accessor, "structLit", <<>>, "Signup"))

\* Definitions of GetUser: func GetUser(c *gin.Context) { c.Param("id");
\* c.Query("filter") }, the calls in the other order with a nested block,
\* and the function returning a gin.HandlerFunc.
GetUserTexts ==
    { <<Func1(GetUser, <<"c">>), OpenBrace, ParamId, QueryFilter, CloseBrace>>,
      <<Func1(GetUser, <<"c">>), OpenBrace, QueryFilter, OpenBrace, ParamId, CloseBrace,
        CloseBrace>>,
      <<Func2(GetUser), OpenBrace, InnerFunc(<<"c">>), OpenBrace, ParamId, QueryFilter,
        CloseBrace, CloseBrace>> }

\* Definitions of SignUp: func SignUp(c *gin.Context) {
\* c.BindJSON(&Signup{}) }, with ShouldBindJSON, and the function returning
\* a gin.HandlerFunc.
SignUpTexts ==
    { <<Func1(SignUp, <<"c">>), OpenBrace, BindSignup("BindJSON"), CloseBrace>>,
      <<Func1(SignUp, <<"c">>), OpenBrace, BindSignup("ShouldBindJSON"), CloseBrace>>,
      <<Func2(SignUp), OpenBrace, InnerFunc(<<"c">>), OpenBrace, BindSignup("BindJSON"),
        CloseBrace, CloseBrace>> }

\* The function definitions of a workspace: none, one of the two handlers,
\* or both.
HandlerTexts ==
    {<<>>} \cup GetUserTexts \cup SignUpTexts
        \cup {a \o b : a \in GetUserTexts, b \in SignUpTexts}

\* type Signup struct { Email string `json:"email"`; Age int }
SignupDecl ==
    [ name  |-> "Signup",
      lines |-> << [kind |-> "field", goField |-> <<"E", "m", "a", "i", "l">>,
                    goType |-> "string", tag |-> <<"e", "m", "a", "i", "l">>],
                   [kind |-> "field", goField |-> <<"A", "g", "e">>,
                    goType |-> "int", tag |-> <<>>] >> ]

\* The struct declarations of a workspace: Signup alone, or after the
\* struct T of SampleText.
StructTexts == { <<SignupDecl>>, SampleText.structs \o <<SignupDecl>> }

UsersId == <<"/", "u", "s", "e", "r", "s", "/", ":", "i", "d">>

SignupPath == <<"/", "s", "i", "g", "n", "u", "p">>

\* Registration call sites: g.GET("/users/:id", GetUser),
\* r.POST("/users/:id", GetUser),
\* g.POST("/signup", h.SignUp), r.Handle("PUT", "/signup", SignUp),
\* g.GET("/signup", SignUp).
CommandRegs ==
    { [shape |-> "method", method |-> "GET", recv |-> "g",
       relPath |-> UsersId, handlerExpr |-> <<GetUser>>],
      [shape |-> "method", method |-> "POST", recv |-> "r",
       relPath |-> UsersId, handlerExpr |-> <<GetUser>>],
      [shape |-> "method", method |-> "POST", recv |-> "g",
       relPath |-> SignupPath, handlerExpr |-> <<<<"h">>, SignUp>>],
      [shape |-> "handle", method |-> "PUT", recv |-> "r",
       relPath |-> SignupPath, handlerExpr |-> <<SignUp>>],
      [shape |-> "method", method |-> "GET", recv |-> "g",
       relPath |-> SignupPath, handlerExpr |-> <<SignUp>>] }

\* g := r.Group("/api")
ApiGroup == <<[child |-> "g", base |-> "r", rel |-> <<"/", "a", "p", "i">>]>>

\* The server-start call sites of a workspace: none, or r.Run(":1").
StartTexts == { PackageClause, PackageClause \o <<"r", ".", "R", "u", "n", "(", "\"", ":", "1", "\"", ")", "\n">> }

\* The workspace of one Go file holding everything, or of two with the
\* function and struct declarations in the first and the router set-up in
\* the second.
CommandDocs(n, text, structs, regs, starts) ==
    [d \in 1..n |->
        [ filePath |-> d,
          text     |-> IF d = 1 THEN text ELSE <<>>,
          structs  |-> IF d = 1 THEN structs ELSE <<>>,
          varDecls |-> <<>>,
          groups   |-> IF d = n THEN ApiGroup ELSE <<>>,
          roots    |-> IF d = n THEN {"r"} ELSE {},
          regs     |-> IF d = n THEN regs ELSE <<>>,
          starts   |-> IF d = n THEN starts ELSE PackageClause ]]

CommandConfigs ==
    [ baseUrl        : {NotSet, UserSet(<<"h", "t", "t", "p", ":", "/", "/", "h", "/">>)},
      defaultHeaders : {NotSet},
      useHttpieStyle : {NotSet} ]

InitCommand ==
    /\ eCfg \in CommandConfigs
    /\ \E n \in 1..MaxFiles :
       \E text \in HandlerTexts :
       \E structs \in StructTexts :
       \E regs \in DistinctSeqs(CommandRegs, MaxRegs) :
       \E starts \in StartTexts :
          eDocs = CommandDocs(n, text, structs, regs, starts)
    /\ eHandlers = <<>>
    /\ eRoutes = <<>>
    /\ eLinked = <<>>
    /\ ePick = <<>>
    /\ eCurl = <<>>
    /\ ePc = "ready"
    /\ GroupIdle
    /\ RoutesIdle
    /\ StructIdle
    /\ ParamsIdle
    /\ QuoteIdle
    /\ CurlIdle
    /\ BraceIdle
    /\ HandlersIdle
    /\ LinkIdle
    /\ BaseUrlIdle
    /\ ShowIdle
    /\ SampleIdle
    /\ OverlayIdle

\* const { handlers, routes } = await scanWorkspace()
CommandScan ==
    /\ ePc = "ready"
    /\ LET res == ScanWorkspaceTexts(eDocs)
       IN  /\ eHandlers' = res.handlers
           /\ eRoutes' = res.routes
    /\ ePc' = "scanned"
    /\ UNCHANGED <<eCfg, eDocs, eLinked, ePick, eCurl>>
    /\ UNCHANGED nonCommandVars

\* const linked = linkHandlersToRoutes(handlers, routes), with handlers.
CommandLink ==
    /\ ePc = "scanned"
    /\ eLinked' = linkHandlersToRoutes(eHandlers, eRoutes)
    /\ ePc' = IF Len(eLinked') = 0 THEN "done" ELSE "linked"
    /\ UNCHANGED <<eCfg, eDocs, eHandlers, eRoutes, ePick, eCurl>>
    /\ UNCHANGED nonCommandVars

\* The two quick picks, answered: a handler of linked and one of its
\* routes.
CommandPick ==
    /\ ePc = "linked"
    /\ \E i \in 1..Len(eLinked) :
       LET items == QuickPickItems(eLinked[i].routes)
       IN  \E j \in 1..Len(items) :
              ePick' = [handler |-> eLinked[i].handler, route |-> items[j],
                        item |-> j, routes |-> eLinked[i].routes]
    /\ ePc' = "picked"
    /\ UNCHANGED <<eCfg, eDocs, eHandlers, eRoutes, eLinked, eCurl>>
    /\ UNCHANGED nonCommandVars

\* A quick pick dismissed: if (!pick) { return; }
CommandDismiss ==
    /\ ePc = "linked"
    /\ ePc' = "done"
    /\ UNCHANGED <<eCfg, eDocs, eHandlers, eRoutes, eLinked, ePick, eCurl>>
    /\ UNCHANGED nonCommandVars

\* await showCurl(pick.handler, routePick.route)
CommandShowCurl ==
    /\ ePc = "picked"
    /\ LET goFiles == [d \in 1..Len(eDocs) |-> eDocs[d].starts]
           opts    == withInferredBaseUrl(readOptions(eCfg), goFiles)
       IN  eCurl' = generateCurl(ePick.handler, ePick.route, opts)
    /\ ePc' = "shown"
    /\ UNCHANGED <<eCfg, eDocs, eHandlers, eRoutes, eLinked, ePick>>
    /\ UNCHANGED nonCommandVars

NextCommand ==
    \/ CommandScan
    \/ CommandLink
    \/ CommandPick
    \/ CommandDismiss
    \/ CommandShowCurl

SpecCommand == InitCommand /\ [][NextCommand]_vars

\* The definition of the handler picked is the text piece.
PickedDefinition(piece) ==
    LET text == eDocs[ePick.handler.filePath].text
        at   == ePick.handler.index
    IN  /\ at + Len(piece) <= Len(text)
        /\ SubSeq(text, at + 1, at + Len(piece)) = piece

\* The registration call sites the route picked can come from: those of
\* its file with its method and its handler.
PickedSites ==
    LET r    == ePick.routes[ePick.item]
        regs == eDocs[r.filePath].regs
    IN  {regs[i] : i \in {k \in 1..Len(regs) :
                            /\ regs[k].method = r.method
                            /\ regs[k].handlerExpr[Len(regs[k].handlerExpr)] = r.handlerName}}

\* File d declares recv as a group with prefix rel made from a root router.
GroupFromRoot(d, recv, rel) ==
    \E i \in 1..Len(eDocs[d].groups) :
        /\ eDocs[d].groups[i].child = recv
        /\ eDocs[d].groups[i].base \in eDocs[d].roots
        /\ eDocs[d].groups[i].rel = rel

\* The handler picked reads path parameter id and query parameter filter,
\* and the route picked is registered by a method-specific call at
\* /users/:id on a group with prefix /api made from a root router.
ScenarioA ==
    /\ ePc = "shown"
    /\ ePick.route.present
    /\ \E piece \in GetUserTexts : PickedDefinition(piece)
    /\ PickedSites # {}
    /\ \A m \in PickedSites :
          /\ m.shape = "method"
          /\ m.relPath = <<"/", "u", "s", "e", "r", "s", "/", ":", "i", "d">>
          /\ GroupFromRoot(ePick.routes[ePick.item].filePath, m.recv, <<"/", "a", "p", "i">>)

\* The base addresses of the workspace: the configured one, the one of the
\* server-start call, the default.
BaseAddresses == { <<"h", "t", "t", "p", ":", "/", "/", "h">>, <<"h", "t", "t", "p", ":", "/", "/", "l", "o", "c", "a", "l", "h", "o", "s", "t", ":", "1">>, <<"h", "t", "t", "p", ":", "/", "/", "l", "o", "c", "a", "l", "h", "o", "s", "t", ":", "8", "0", "8", "0">> }

\* The last part of the command, the URL in quotes, is url.
CommandUrlIs(url) == IsSuffix(LineBreak \o <<"'">> \o url \o <<"'">>, eCurl)

\* C19: a handler that reads path parameter id and query parameter filter,
\* registered by a method-specific call at /users/:id on a group created
\* with prefix /api from a root router, yields a command whose URL is the
\* base address followed by /api/users/<id>?filter=<filter>.
C19_ScenarioAUrl ==
    ScenarioA =>
        \E base \in BaseAddresses : CommandUrlIs(base \o <<"/", "a", "p", "i", "/", "u", "s", "e", "r", "s", "/", "<", "i", "d", ">", "?", "f", "i", "l", "t", "e", "r", "=", "<", "f", "i", "l", "t", "e", "r", ">">>)

C19_Witness ==
    /\ ScenarioA
    /\ CommandUrlIs(<<"h", "t", "t", "p", ":", "/", "/", "l", "o", "c", "a", "l", "h", "o", "s", "t", ":", "1">> \o <<"/", "a", "p", "i", "/", "u", "s", "e", "r", "s", "/", "<", "i", "d", ">", "?", "f", "i", "l", "t", "e", "r", "=", "<", "f", "i", "l", "t", "e", "r", ">">>)
    /\ Len(eDocs) = 2

\* The file of the handler picked declares Signup as SignupDecl: a string
\* field tagged json "email", then an untagged int field Age.
SignupDeclared ==
    LET structs == eDocs[ePick.handler.filePath].structs
    IN  \E i \in 1..Len(structs) :
            /\ structs[i] = SignupDecl
            /\ \A j \in 1..(i - 1) : structs[j].name # "Signup"

\* The handler picked JSON-binds &Signup{}, and the route picked has a
\* method that carries a body.
ScenarioB ==
    /\ ePc = "shown"
    /\ \E piece \in SignUpTexts : PickedDefinition(piece)
    /\ SignupDeclared
    /\ ePick.route.present
    /\ ePick.routes[ePick.item].method \in {"POST", "PUT", "PATCH", "DELETE"}

\* The JSON object with the keys email and age, valued "<email>" and 0.
SignupBody == <<"{", "\n", " ", " ", "\"", "e", "m", "a", "i", "l", "\"", ":", " ", "\"", "<", "e", "m", "a", "i", "l", ">", "\"", ",", "\n", " ", " ", "\"", "a", "g", "e", "\"", ":", " ", "0", "\n", "}">>

BindsOf(kind) ==
    { i \in 1..Len(pBody) :
        /\ OnContext(pBody[i])
        /\ pBody[i].accessor \in {"ShouldBindJSON", "BindJSON", "ShouldBind", "Bind"}
        /\ pBody[i].argKind = kind }

FirstOfSet(S) == CHOOSE i \in S : \A j \in S : i <= j

\* The text declares no struct named typeName; no declaration gives
\* varName a type.
TypeUndeclared(typeName) ==
    \A i \in 1..Len(pText.structs) : pText.structs[i].name # typeName

VarUntyped(varName) ==
    \A i \in 1..Len(pText.varDecls) : pText.varDecls[i].name # varName

\* The body is JSON-bound to a struct literal of a type the text does not
\* declare.
BoundTypeNotFound ==
    /\ HasJsonBind
    /\ BindsOf("structLit") # {}
    /\ TypeUndeclared(pBody[FirstOfSet(BindsOf("structLit"))].argName)

\* The body is JSON-bound to the address of a variable whose type the text
\* does not tell.
BoundVarUntyped ==
    /\ HasJsonBind
    /\ BindsOf("structLit") = {}
    /\ BindsOf("addrVar") # {}
    /\ VarUntyped(pBody[FirstOfSet(BindsOf("addrVar"))].argName)

\* The command for the handler with the params inferred, on a route with
\* method.
CommandFor(method) ==
    generateCurl([name |-> <<"H">>, params |-> pParams],
                 [present |-> TRUE, method |-> method, path |-> <<"/", "a">>],
                 [baseUrl |-> DefaultAddress, defaultHeaders |-> <<>>,
                  useHttpieStyle |-> FALSE])

EmptyObjectBody == LineBreak \o <<"-", "d", " ", "'", "{", "}", "'">> \o LineBreak

\* C21: when the declaration of the JSON-bound type is not found in the
\* text, the field list is empty and generateCurl, for a body-carrying
\* method, emits the empty-object body '{}'; the same holds when the type
\* of the bound variable cannot be determined.
C21_EmptyObjectFallback ==
    (pPc = "done" /\ (BoundTypeNotFound \/ BoundVarUntyped)) =>
        /\ pParams.bodyType = "json"
        /\ pParams.jsonFields = <<>>
        /\ BoundTypeNotFound => pParams.hasJsonFields
        /\ \A method \in BodyMethods : Contains(CommandFor(method), EmptyObjectBody)

C21_Witness ==
    /\ pPc = "done"
    /\ BoundTypeNotFound
    /\ pParams.jsonStructName = "U"
    /\ Contains(CommandFor(<<"P", "O", "S", "T">>), EmptyObjectBody)


\* The routes of rRoutes with the wildcard marker, and the .Any call sites
\* of the workspace.
AnyRoutes == {i \in RouteIdx : rRoutes[i].method = METHOD_ANY}

AnySites ==
    { <<d, i>> \in (1..Len(rFiles)) \X (1..(MaxRegs + 1)) :
        i <= Len(rFiles[d].regs) /\ rFiles[d].regs[i].shape = "any" }

\* The .Handle call sites whose method token is outside the fixed set.
BadHandleSites ==
    { <<d, i>> \in (1..Len(rFiles)) \X (1..(MaxRegs + 1)) :
        /\ i <= Len(rFiles[d].regs)
        /\ rFiles[d].regs[i].shape = "handle"
        /\ rFiles[d].regs[i].method \notin
              {"GET", "POST", "PUT", "DELETE", "PATCH", "OPTIONS", "HEAD"} }

\* The call sites of the workspace, all of them.
AllSites ==
    { <<d, i>> \in (1..Len(rFiles)) \X (1..(MaxRegs + 1)) : i <= Len(rFiles[d].regs) }

\* C22: the method of every RouteRegistration is one of GET, POST, PUT,
\* DELETE, PATCH, OPTIONS, HEAD or the wildcard marker ANY; a .Handle call
\* whose method token is outside the fixed set produces no registration,
\* and only .Any calls produce ANY.
C22_MethodsValid ==
    rPc = "done" =>
        /\ \A i \in RouteIdx :
              rRoutes[i].method \in
                 {"GET", "POST", "PUT", "DELETE", "PATCH", "OPTIONS", "HEAD", "ANY"}
        /\ Cardinality(RouteIdx) <= Cardinality(AllSites \ BadHandleSites)
        /\ Cardinality(AnyRoutes) <= Cardinality(AnySites)

\* The unfiltered scan of a workspace with .Handle("ANY", ...) and an .Any
\* call: one registration, with the wildcard marker.
C22_Witness ==
    /\ rPc = "done"
    /\ rOp = "scanRoutesAcrossWorkspaceNoNames"
    /\ \E s \in BadHandleSites : rFiles[s[1]].regs[s[2]].method = "ANY"
    /\ Cardinality(AnySites) = 1
    /\ Cardinality(AnyRoutes) = 1
    /\ Len(rRoutes) = 1

\* The method the command is for: the route's, GET for an unlinked handler.
ResolvedMethod == IF cRoute.present THEN cRoute.method ELSE <<"G", "E", "T">>

\* The command has a body segment: a part made of a data flag and a quoted
\* value.
HasBodySegment ==
    \E flag \in {<<"-", "d">>, <<"-", "-", "d", "a", "t", "a", "-", "u", "r", "l", "e", "n", "c", "o", "d", "e">>, <<"-", "F">>} : Contains(cOut, LineBreak \o flag \o <<" ", "'">>)

\* C23: generateCurl emits a body segment, and a defaulted Content-Type
\* header, only when the resolved method is POST, PUT, PATCH or DELETE and
\* the body classification is json, form or multipart; for every other
\* method (the GET of an unlinked handler among them) or classification
\* the command has no body segment.
C23_BodyOnlyForBodyMethods ==
    cPc = "done" =>
        /\ HasBodySegment <=>
              /\ ResolvedMethod \in {<<"P", "O", "S", "T">>, <<"P", "U", "T">>, <<"P", "A", "T", "C", "H">>, <<"D", "E", "L", "E", "T", "E">>}
              /\ cHandler.params.bodyType \in {"json", "form", "multipart"}
        /\ (~HasBodySegment /\ ~HasKey(cOpts.defaultHeaders, ContentType))
              => ~Contains(cOut, ContentType)

\* An unlinked handler with a JSON body: a GET command without body
\* segment and without Content-Type header.
C23_Witness ==
    /\ cPc = "done"
    /\ ~cRoute.present
    /\ cHandler.params.bodyType = "json"
    /\ cHandler.params.jsonFields # <<>>
    /\ ~HasBodySegment
    /\ ~Contains(cOut, ContentType)


\* C24: a bound-type name or a resolved field list is present in the
\* params of a handler only if its body classification is json; a handler
\* classified multipart, form or none never carries jsonStructName or
\* jsonFields.
C24_StructOnlyWithJson ==
    pPc = "done" =>
        (pParams.bodyType # "json" =>
            /\ pParams.jsonStructName = NoType
            /\ ~pParams.hasJsonFields
            /\ pParams.jsonFields = <<>>)

\* A body that binds a struct literal through ShouldBind and reads a file:
\* classified multipart, without struct name and field list.
C24_Witness ==
    /\ pPc = "done"
    /\ BindsOf("structLit") # {}
    /\ pParams.bodyType = "multipart"
    /\ pParams.jsonStructName = NoType
    /\ ~pParams.hasJsonFields

\* ------------------------------------------------------------------------
\* The heading patterns of findHandlersInText
\* ------------------------------------------------------------------------

\* The index behind [A-Za-z0-9_]* from index i.
RECURSIVE SkipWord(_, _)
SkipWord(text, i) ==
    IF i < Len(text) /\ text[i + 1] \in WordChars THEN SkipWord(text, i + 1) ELSE i

\* [A-Za-z_][A-Za-z0-9_]* at index i: the index behind it, -1 without
\* match.
IdentAt(text, i) ==
    IF i >= 0 /\ i < Len(text) /\ text[i + 1] \in WordChars
       /\ text[i + 1] \notin {Digits[k] : k \in 1..Len(Digits)}
    THEN SkipWord(text, i + 1) ELSE -1

\* The index of the first ')' from index i on, -1 without one.
RECURSIVE NextParenAt(_, _)
NextParenAt(text, i) ==
    IF i < 0 \/ i >= Len(text) THEN -1
    ELSE IF text[i + 1] = ")" THEN i
    ELSE NextParenAt(text, i + 1)

\* \([^)]*\) at index i: the index behind it, -1 without match.
ParenGroupAt(text, i) ==
    IF i >= 0 /\ LitAt(text, i, <<"(">>) /\ NextParenAt(text, i + 1) # -1
    THEN NextParenAt(text, i + 1) + 1 ELSE -1

GinContext == <<"g", "i", "n", ".", "C", "o", "n", "t", "e", "x", "t">>

GinHandlerFunc == <<"g", "i", "n", ".", "H", "a", "n", "d", "l", "e", "r", "F", "u", "n", "c">>

NoHeading == [found |-> FALSE, name |-> <<>>, sig |-> <<>>]

\* \s*\(([^)]*gin\.Context[^)]*)\)\s*\{ behind a name that starts at from
\* and ends at i.
ContextTailAt(text, from, i) ==
    LET open  == SkipBlanks(text, i)
        close == NextParenAt(text, open + 1)
        sig   == SubSeq(text, open + 2, close)
    IN  IF /\ LitAt(text, open, <<"(">>) /\ close # -1
           /\ Contains(sig, GinContext)
           /\ LitAt(text, SkipBlanks(text, close + 1), <<"{">>)
        THEN [found |-> TRUE, name |-> SubSeq(text, from + 1, i), sig |-> sig]
        ELSE NoHeading

\* \s*\(\s*\)\s*(?:\(gin\.HandlerFunc\)|gin\.HandlerFunc)\s*\{ behind a
\* name that starts at from and ends at i.
FactoryTailAt(text, from, i) ==
    LET open  == SkipBlanks(text, i)
        close == SkipBlanks(text, open + 1)
        ret   == SkipBlanks(text, close + 1)
        after == IF LitAt(text, ret, <<"(">> \o GinHandlerFunc \o <<")">>)
                 THEN ret + Len(GinHandlerFunc) + 2
                 ELSE IF LitAt(text, ret, GinHandlerFunc) THEN ret + Len(GinHandlerFunc)
                 ELSE -1
    IN  IF /\ LitAt(text, open, <<"(">>) /\ LitAt(text, close, <<")">>)
           /\ after # -1
           /\ LitAt(text, SkipBlanks(text, after), <<"{">>)
        THEN [found |-> TRUE, name |-> SubSeq(text, from + 1, i), sig |-> <<>>]
        ELSE NoHeading

\* pattern1 at index i: func, an optional receiver group, a name and a
\* parameter list naming gin.Context.
Pattern1At(text, i) ==
    LET j        == SkipBlanks(text, i + 4)
        recv     == ParenGroupAt(text, j)
        n1       == IF recv = -1 THEN -1 ELSE SkipBlanks(text, recv)
        e1       == IdentAt(text, n1)
        withRecv == IF e1 = -1 THEN NoHeading ELSE ContextTailAt(text, n1, e1)
        e2       == IdentAt(text, j)
    IN  IF ~LitAt(text, i, <<"f", "u", "n", "c">>) THEN NoHeading
        ELSE IF withRecv.found THEN withRecv
        ELSE IF e2 = -1 THEN NoHeading
        ELSE ContextTailAt(text, j, e2)

\* pattern2 at index i: func, blanks, a name, an empty parameter list and
\* the return type gin.HandlerFunc.
Pattern2At(text, i) ==
    LET j == SkipBlanks(text, i + 4)
        e == IdentAt(text, j)
    IN  IF LitAt(text, i, <<"f", "u", "n", "c">>) /\ j > i + 4 /\ e # -1
        THEN FactoryTailAt(text, j, e) ELSE NoHeading

\* pattern2Method at index i: func, a receiver group, a name, an empty
\* parameter list and the return type gin.HandlerFunc.
Pattern2MethodAt(text, i) ==
    LET recv == ParenGroupAt(text, SkipBlanks(text, i + 4))
        n    == IF recv = -1 THEN -1 ELSE SkipBlanks(text, recv)
        e    == IdentAt(text, n)
    IN  IF LitAt(text, i, <<"f", "u", "n", "c">>) /\ e # -1
        THEN FactoryTailAt(text, n, e) ELSE NoHeading

\* ([a-zA-Z_][a-zA-Z0-9_]*)\s*\*\s*gin\.Context at index i: the name, or
\* NoHeading.
ContextParamAt(text, i) ==
    LET e    == IdentAt(text, i)
        star == SkipBlanks(text, e)
    IN  IF /\ e # -1 /\ LitAt(text, star, <<"*">>)
           /\ LitAt(text, SkipBlanks(text, star + 1), GinContext)
        THEN [ found |-> TRUE, name |-> SubSeq(text, i + 1, e),
               sig |-> SubSeq(text, i + 1, SkipBlanks(text, star + 1) + Len(GinContext)) ]
        ELSE NoHeading

\* innerCtxParam at index i: func(name *gin.Context).
InnerCtxParamAt(text, i) ==
    LET open == SkipBlanks(text, i + 4)
        m    == ContextParamAt(text, SkipBlanks(text, open + 1))
    IN  IF /\ LitAt(text, i, <<"f", "u", "n", "c">>) /\ LitAt(text, open, <<"(">>)
           /\ m.found
           /\ LitAt(text, SkipBlanks(text, SkipBlanks(text, open + 1) + Len(m.sig)), <<")">>)
        THEN m ELSE NoHeading

PatternAt(text, pattern, i) ==
    CASE pattern = "func1" -> Pattern1At(text, i)
      [] pattern = "func2" -> Pattern2At(text, i)
      [] pattern = "func2m" -> Pattern2MethodAt(text, i)
      [] pattern = "inner" -> InnerCtxParamAt(text, i)
      [] pattern = "ctx" -> ContextParamAt(text, i)

\* pattern.exec(text): the leftmost match from index i on.
RECURSIVE PatternExec(_, _, _)
PatternExec(text, pattern, i) ==
    IF i >= Len(text) THEN NoHeading
    ELSE IF PatternAt(text, pattern, i).found THEN PatternAt(text, pattern, i)
    ELSE PatternExec(text, pattern, i + 1)

extractContextParamName(signatureParams) ==
    LET m == PatternExec(signatureParams, "ctx", 0)
    IN  IF m.found THEN m.name ELSE Undefined

\* The token of a heading, the text of a function heading up to its '{':
\* what the patterns match of it.
HeadingTok(text) ==
    LET m1 == PatternExec(text, "func1", 0)
        m2 == PatternExec(text, "func2", 0)
        mm == PatternExec(text, "func2m", 0)
        mi == PatternExec(text, "inner", 0)
    IN  IF m1.found THEN Func1(m1.name, extractContextParamName(m1.sig))
        ELSE IF m2.found THEN Func2(m2.name)
        ELSE IF mm.found THEN Func2Method(mm.name)
        ELSE IF mi.found THEN InnerFunc(mi.name)
        ELSE Tok("text", <<>>, <<>>, NoCall)

\* A function definition: its heading, the heading of the function literal
\* it returns (<<>> without one) and the calls of the innermost body.
DefToks(def) ==
    <<HeadingTok(def.head), OpenBrace>>
        \o (IF def.inner = <<>> THEN def.calls
            ELSE <<HeadingTok(def.inner), OpenBrace>> \o def.calls \o <<CloseBrace>>)
        \o <<CloseBrace>>

RECURSIVE DefsToks(_)
DefsToks(defs) == IF defs = <<>> THEN <<>> ELSE DefToks(defs[1]) \o DefsToks(Tail(defs))

\* Headings: the four shapes of the README, the factory with the return
\* type in parentheses, the factory returning func(c *gin.Context), the
\* factory with a parameter, and a function that is no handler.
Headings ==
    { <<"f", "u", "n", "c", " ", "A", "(", "c", " ", "*", "g", "i", "n", ".", "C", "o", "n", "t", "e", "x", "t", ")", " ", "{">>,
      <<"f", "u", "n", "c", " ", "(", "h", " ", "*", "X", ")", " ", "B", "(", "c", " ", "*", "g", "i", "n", ".", "C", "o", "n", "t", "e", "x", "t", ")", " ", "{">>,
      <<"f", "u", "n", "c", " ", "C", "(", ")", " ", "g", "i", "n", ".", "H", "a", "n", "d", "l", "e", "r", "F", "u", "n", "c", " ", "{">>,
      <<"f", "u", "n", "c", " ", "(", "h", " ", "*", "X", ")", " ", "D", "(", ")", " ", "g", "i", "n", ".", "H", "a", "n", "d", "l", "e", "r", "F", "u", "n", "c", " ", "{">>,
      <<"f", "u", "n", "c", " ", "E", "(", ")", " ", "(", "g", "i", "n", ".", "H", "a", "n", "d", "l", "e", "r", "F", "u", "n", "c", ")", " ", "{">>,
      <<"f", "u", "n", "c", " ", "(", "h", " ", "*", "X", ")", " ", "F", "(", ")", " ", "(", "g", "i", "n", ".", "H", "a", "n", "d", "l", "e", "r", "F", "u", "n", "c", ")", " ", "{">>,
      <<"f", "u", "n", "c", " ", "G", "(", ")", " ", "f", "u", "n", "c", "(", "c", " ", "*", "g", "i", "n", ".", "C", "o", "n", "t", "e", "x", "t", ")", " ", "{">>,
      <<"f", "u", "n", "c", " ", "H", "(", "s", " ", "*", "S", ")", " ", "g", "i", "n", ".", "H", "a", "n", "d", "l", "e", "r", "F", "u", "n", "c", " ", "{">>,
      <<"f", "u", "n", "c", " ", "m", "a", "i", "n", "(", ")", " ", "{">> }

\* The bodies: a returned literal with the context c reading Param("id"),
\* one with the context ctx reading Query("q") next to a call on another
\* variable, and a plain body reading Query("q") on c.
Bodies ==
    { [ inner |-> <<"f", "u", "n", "c", "(", "c", " ", "*", "g", "i", "n", ".", "C", "o", "n", "t", "e", "x", "t", ")", " ", "{">>,
        calls |-> <<CallTok(LitCall(<<"c">>, "Param", <<"i", "d">>))>> ],
      [ inner |-> <<"f", "u", "n", "c", " ", "(", "c", "t", "x", " ", " ", "*", "g", "i", "n", ".", "C", "o", "n", "t", "e", "x", "t", ")", " ", "{">>,
        calls |-> << CallTok(LitCall(<<"c", "t", "x">>, "Query", <<"q">>)),
                     CallTok(LitCall(<<"d">>, "Param", <<"i", "d">>)) >> ],
      [ inner |-> <<>>,
        calls |-> <<CallTok(LitCall(<<"c">>, "Query", <<"q">>))>> ] }

Defs == { [head |-> h, inner |-> b.inner, calls |-> b.calls] : h \in Headings, b \in Bodies }

\* The document of the definitions defs; source keeps them as written.
DocOfDefs(defs) ==
    [ filePath |-> "f1", text |-> DefsToks(defs), source |-> defs,
      structs |-> <<>>, varDecls |-> <<>> ]

InitFactories ==
    /\ \E defs \in SeqsUpTo(Defs, MaxFactories) : hDoc = DocOfDefs(defs)
    /\ hHandlers = <<>>
    /\ hPc = "ready"
    /\ GroupIdle
    /\ RoutesIdle
    /\ StructIdle
    /\ ParamsIdle
    /\ QuoteIdle
    /\ CurlIdle
    /\ BraceIdle
    /\ LinkIdle
    /\ BaseUrlIdle
    /\ ShowIdle
    /\ CommandIdle
    /\ SampleIdle
    /\ OverlayIdle

SpecFactories == InitFactories /\ [][NextHandlers]_vars

\* The factory headings and the names they declare: free and with a
\* receiver, the return type gin.HandlerFunc bare and in parentheses; the
\* factory returning func(c *gin.Context); the factory with a parameter.
FactoryHeadings ==
    { [head |-> <<"f", "u", "n", "c", " ", "C", "(", ")", " ", "g", "i", "n", ".", "H", "a", "n", "d", "l", "e", "r", "F", "u", "n", "c", " ", "{">>, name |-> <<"C">>],
      [head |-> <<"f", "u", "n", "c", " ", "(", "h", " ", "*", "X", ")", " ", "D", "(", ")", " ", "g", "i", "n", ".", "H", "a", "n", "d", "l", "e", "r", "F", "u", "n", "c", " ", "{">>, name |-> <<"D">>],
      [head |-> <<"f", "u", "n", "c", " ", "E", "(", ")", " ", "(", "g", "i", "n", ".", "H", "a", "n", "d", "l", "e", "r", "F", "u", "n", "c", ")", " ", "{">>, name |-> <<"E">>],
      [head |-> <<"f", "u", "n", "c", " ", "(", "h", " ", "*", "X", ")", " ", "F", "(", ")", " ", "(", "g", "i", "n", ".", "H", "a", "n", "d", "l", "e", "r", "F", "u", "n", "c", ")", " ", "{">>, name |-> <<"F">>],
      [head |-> <<"f", "u", "n", "c", " ", "G", "(", ")", " ", "f", "u", "n", "c", "(", "c", " ", "*", "g", "i", "n", ".", "C", "o", "n", "t", "e", "x", "t", ")", " ", "{">>, name |-> <<"G">>],
      [head |-> <<"f", "u", "n", "c", " ", "H", "(", "s", " ", "*", "S", ")", " ", "g", "i", "n", ".", "H", "a", "n", "d", "l", "e", "r", "F", "u", "n", "c", " ", "{">>, name |-> <<"H">>] }

\* The headings of the returned literals and the context parameters they
\* declare.
LiteralHeadings ==
    { [head |-> <<"f", "u", "n", "c", "(", "c", " ", "*", "g", "i", "n", ".", "C", "o", "n", "t", "e", "x", "t", ")", " ", "{">>, ctx |-> <<"c">>],
      [head |-> <<"f", "u", "n", "c", " ", "(", "c", "t", "x", " ", " ", "*", "g", "i", "n", ".", "C", "o", "n", "t", "e", "x", "t", ")", " ", "{">>, ctx |-> <<"c", "t", "x">>] }

\* The number of tokens of a definition, and the index of the heading of
\* definition k of the document.
DefLen(def) == 3 + Len(def.calls) + (IF def.inner = <<>> THEN 0 ELSE 3)

RECURSIVE DefIndex(_)
DefIndex(k) == IF k = 1 THEN 0 ELSE DefIndex(k - 1) + DefLen(hDoc.source[k - 1])

\* The literals the calls of def read through accessor on the variable ctx,
\* in text order.
RECURSIVE ReadsOf(_, _, _)
ReadsOf(calls, ctx, accessor) ==
    IF calls = <<>> THEN <<>>
    ELSE IF calls[1].call.recv = ctx /\ calls[1].call.accessor = accessor
         THEN <<calls[1].call.lit>> \o ReadsOf(Tail(calls), ctx, accessor)
         ELSE ReadsOf(Tail(calls), ctx, accessor)

\* The handlers found between the heading of definition k and its end.
HandlersOfDef(k) ==
    { i \in 1..Len(hHandlers) :
        /\ hHandlers[i].index >= DefIndex(k)
        /\ hHandlers[i].index < DefIndex(k) + DefLen(hDoc.source[k]) }

\* Definition k is a factory f returning the literal l, and the handlers
\* hold exactly one handler for it: named after the factory, with the
\* context parameter of the literal and the reads of the literal.
OneHandlerFor(k, f, l) ==
    /\ Cardinality(HandlersOfDef(k)) = 1
    /\ \A i \in HandlersOfDef(k) :
          /\ hHandlers[i].index = DefIndex(k)
          /\ hHandlers[i].name = f.name
          /\ hHandlers[i].contextParamName = l.ctx
          /\ hHandlers[i].params.pathParams = ReadsOf(hDoc.source[k].calls, l.ctx, "Param")
          /\ hHandlers[i].params.queryParams = ReadsOf(hDoc.source[k].calls, l.ctx, "Query")
          /\ hHandlers[i].params.bodyType = "none"

\* C25: a factory function (free or with a receiver, the return type
\* written with or without parentheses) together with the function literal
\* it returns yields exactly one handler, named after the factory, whose
\* context-parameter name is the one the literal declares and whose params
\* are inferred from the accessor calls of the literal.
C25_FactoryOneHandler ==
    hPc = "done" =>
        \A k \in 1..Len(hDoc.source) :
        \A f \in FactoryHeadings :
        \A l \in LiteralHeadings :
            (hDoc.source[k].head = f.head /\ hDoc.source[k].inner = l.head)
                => OneHandlerFor(k, f, l)

\* ---------------------------------------------------------------------
\* scanWorkspace and the order in which findFiles enumerates the files.

\* The orders in which n files can be enumerated.
Enumerations(n) ==
    { p \in [1..n -> 1..n] : \A i, j \in 1..n : i # j => p[i] # p[j] }

\* The documents of docs, enumerated in the order p.
Enumerated(docs, p) == [i \in 1..Len(docs) |-> docs[p[i]]]

Occurrences(seq, x) == Cardinality({i \in 1..Len(seq) : seq[i] = x})

\* The two lists hold the same elements the same number of times.
SameElements(a, b) ==
    /\ Len(a) = Len(b)
    /\ \A i \in 1..Len(a) : Occurrences(a, a[i]) = Occurrences(b, a[i])

\* The call sites of the workspace whose method passes the method test and
\* whose handler is among the handlers of some document.
DefinedSites ==
    { <<d, i>> \in (1..Len(rFiles)) \X (1..MaxRegs) :
        /\ i <= Len(rFiles[d].regs)
        /\ rFiles[d].regs[i].shape = "handle" => rFiles[d].regs[i].method \in HTTP_METHODS
        /\ \E e \in 1..Len(rFiles) : \E j \in 1..Len(rFiles[e].handlers) :
              rFiles[e].handlers[j] = lastSegment(rFiles[d].regs[i].handlerExpr) }

\* The registration scanWorkspace emits for the call site s.
SiteRoute(s) ==
    RouteOf(rFiles[s[1]].regs[s[2]],
            buildGroupPrefixMap(rFiles[s[1]].groups, rFiles[s[1]].roots),
            rFiles[s[1]].filePath)

\* Every call site whose handler some document defines is emitted.
DefinedSitesEmitted ==
    \A s \in DefinedSites : \E i \in RouteIdx : rRoutes[i] = SiteRoute(s)

\* C26 as stated: scanWorkspace extracts the routes after the handlers of
\* all files are collected, so a registration is emitted whenever its
\* handler is defined in any scanned file, and the result (the handlers and
\* routes lists returned) is the same for every file enumeration order.
C26_ResultSameInAnyOrder ==
    (rPc = "done" /\ rOp = "scanWorkspace") =>
        /\ DefinedSitesEmitted
        /\ \A p \in Enumerations(Len(rFiles)) :
              LET res == scanWorkspace(Enumerated(rFiles, p))
              IN  /\ res.routes = rRoutes
                  /\ res.handlerNames = rKnown

\* C26 as amended: a registration is emitted whenever its handler is
\* defined in any scanned file, and for every file enumeration order
\* scanWorkspace returns the same registrations the same number of times
\* and knows the same handler names; only their order in the list follows
\* the enumeration order.
C26_SameRoutesInAnyOrder ==
    (rPc = "done" /\ rOp = "scanWorkspace") =>
        /\ DefinedSitesEmitted
        /\ \A p \in Enumerations(Len(rFiles)) :
              LET res == scanWorkspace(Enumerated(rFiles, p))
              IN  /\ SameElements(res.routes, rRoutes)
                  /\ res.handlerNames = rKnown

\* scanWorkspace emitted a registration of the first file whose handler
\* only a later file defines.
C26_Witness ==
    /\ rPc = "done"
    /\ rOp = "scanWorkspace"
    /\ \E s \in DefinedSites :
          /\ s[1] = 1
          /\ lastSegment(rFiles[1].regs[s[2]].handlerExpr)
                \notin {rFiles[1].handlers[j] : j \in 1..Len(rFiles[1].handlers)}
          /\ \E i \in RouteIdx : rRoutes[i] = SiteRoute(s)

\* ---------------------------------------------------------------------
\* generateCurl and its inputs.

\* The header set generateCurl emits for the current inputs.
EmittedHeaders == CurlBody(cHandler, cRoute, cOpts).headers

TypeOps == { <<"*">>, <<"[", "]">>, <<" ">> }

\* Type texts without a prefix: basic types, a struct name, map types, an
\* unclosed map, an array, time.Time and the empty text.
BaseTypes ==
    { <<"s", "t", "r", "i", "n", "g">>,
      <<"i", "n", "t">>,
      <<"b", "o", "o", "l">>,
      <<"U", "s", "e", "r">>,
      <<"m", "a", "p", "[", "s", "t", "r", "i", "n", "g", "]", "i", "n", "t">>,
      <<"m", "a", "p", "[", "s", "t", "r", "i", "n", "g", "]", "[", "]", "*", "T">>,
      <<"m", "a", "p", "[">>,
      <<"[", "4", "]", "i", "n", "t">>,
      <<"t", "i", "m", "e", ".", "T", "i", "m", "e">>,
      <<>> }

\* The type text made of the prefixes ops in front of base.
TypeText(ops, base) == Flatten(ops) \o base

FieldNames == { <<"f">>, <<"a", "'", "b">> }

InitSample ==
    /\ \E ops \in SeqsUpTo(TypeOps, MaxDepth), base \in BaseTypes :
          vType = TypeText(ops, base)
    /\ vField \in FieldNames
    /\ vOut = <<>>
    /\ vPc = "ready"
    /\ GroupIdle
    /\ RoutesIdle
    /\ StructIdle
    /\ ParamsIdle
    /\ QuoteIdle
    /\ CurlIdle
    /\ BraceIdle
    /\ HandlersIdle
    /\ LinkIdle
    /\ BaseUrlIdle
    /\ ShowIdle
    /\ CommandIdle
    /\ OverlayIdle

CallSampleValueForGoType ==
    /\ vPc = "ready"
    /\ vOut' = sampleValueForGoType(vType, vField)
    /\ vPc' = "done"
    /\ UNCHANGED <<vType, vField>>
    /\ UNCHANGED nonSampleVars

NextSample == CallSampleValueForGoType

SpecSample == InitSample /\ [][NextSample]_vars

\* The value the prefixes ops make of the sample inner of the type behind
\* them: a pointer and a blank leave it, a slice puts it in a list.
RECURSIVE Composed(_, _)
Composed(ops, inner) ==
    IF ops = <<>> THEN inner
    ELSE IF ops[1] = <<"[", "]">>
    THEN ListValue(<<[k |-> <<>>, v |-> Composed(Tail(ops), inner)]>>)
    ELSE Composed(Tail(ops), inner)

MapTypes == { <<"m", "a", "p", "[", "s", "t", "r", "i", "n", "g", "]", "i", "n", "t">>, <<"m", "a", "p", "[", "s", "t", "r", "i", "n", "g", "]", "[", "]", "*", "T">> }

\* C28: sampleValueForGoType returns for every type text, and composes:
\* '*T' yields the sample of T, '[]T' a one-element list holding the sample
\* of T, so '[]*int' yields [0] and '**string' the field-name placeholder;
\* a map type yields the fixed key/value pair whatever its value type.
C28_SampleComposes ==
    vPc = "done" =>
        /\ \A ops \in SeqsUpTo(TypeOps, MaxDepth), base \in BaseTypes :
              vType = TypeText(ops, base) =>
                  /\ vOut = Composed(ops, sampleValueForGoType(base, vField))
                  /\ base \in MapTypes => vOut = Composed(ops, KeyValuePlaceholder)
        /\ vType = <<"[", "]", "*", "i", "n", "t">> =>
              vOut = ListValue(<<[k |-> <<>>, v |-> NumberValue(<<"0">>)]>>)
        /\ vType = <<"*", "*", "s", "t", "r", "i", "n", "g">> => vOut = Placeholder(vField)

\* The sample of '[]*int' was taken and is the list holding 0.
C28_Witness ==
    /\ vPc = "done"
    /\ vType = <<"[", "]", "*", "i", "n", "t">>
    /\ vOut = ListValue(<<[k |-> <<>>, v |-> NumberValue(<<"0">>)]>>)

\* ------------------------------------------------------------------------
\* The overlay panel
\* ------------------------------------------------------------------------

\* let curlPanel: vscode.WebviewPanel | undefined
NoPanel == 0

\* if (!curlPanel) with the test left out: every invocation creates.
NeedsPanel_Always(panel) == TRUE

\* if (!curlPanel)
NeedsPanel(panel) == panel = NoPanel

\* createWebviewPanel, then onDidDispose(...) and onDidReceiveMessage(...):
\* a live panel with one dispose listener and one copy-message listener,
\* showing nothing yet.
CreatedPanel ==
    [live |-> TRUE, disposeListeners |-> 1, copyListeners |-> 1, shown |-> 0,
     title |-> "Generated cURL"]

\* curlPanel.title = route ? `${route.method} ${route.path}` : ...;
\* curlPanel.webview.html = ...; reveal: the panel shows the command of
\* invocation call under the title of its route.
Shown(panel, call, routed) ==
    [panel EXCEPT !.shown = call,
                  !.title = IF routed THEN "method path" ELSE "Generated cURL"]

InitOverlay ==
    /\ oPanel = NoPanel
    /\ oPanels = <<>>
    /\ oCalls = <<>>
    /\ oPc = "active"
    /\ GroupIdle
    /\ RoutesIdle
    /\ StructIdle
    /\ ParamsIdle
    /\ QuoteIdle
    /\ CurlIdle
    /\ BraceIdle
    /\ HandlersIdle
    /\ LinkIdle
    /\ BaseUrlIdle
    /\ ShowIdle
    /\ CommandIdle
    /\ SampleIdle

\* showCurlOverlay is called, with a route or without, and runs to its await
\* of withInferredBaseUrl.
OverlayInvoke ==
    /\ oPc = "active"
    /\ Len(oCalls) < MaxShows
    /\ \E routed \in BOOLEAN :
          oCalls' = Append(oCalls, [pc |-> "awaiting", routed |-> routed])
    /\ UNCHANGED <<oPanel, oPanels, oPc>>
    /\ UNCHANGED nonOverlayVars

\* The await of invocation call is over: the rest of showCurlOverlay runs
\* without another await.
OverlayResume ==
    /\ oPc = "active"
    /\ \E call \in 1..Len(oCalls) :
          /\ oCalls[call].pc = "awaiting"
          /\ LET created == NeedsPanel(oPanel)
                 panels  == IF created THEN Append(oPanels, CreatedPanel) ELSE oPanels
                 panel   == IF created THEN Len(panels) ELSE oPanel
             IN  /\ oPanel' = panel
                 /\ oPanels' = [panels EXCEPT ![panel] = Shown(@, call, oCalls[call].routed)]
          /\ oCalls' = [oCalls EXCEPT ![call].pc = "done"]
    /\ UNCHANGED oPc
    /\ UNCHANGED nonOverlayVars

\* A live panel is disposed (the user closes it): its dispose listener runs,
\* curlPanel = undefined.
OverlayDispose ==
    /\ oPc = "active"
    /\ \E p \in 1..Len(oPanels) :
          /\ oPanels[p].live
          /\ oPanels' = [oPanels EXCEPT ![p].live = FALSE]
          /\ oPanel' = IF oPanels[p].disposeListeners > 0 THEN NoPanel ELSE oPanel
    /\ UNCHANGED <<oCalls, oPc>>
    /\ UNCHANGED nonOverlayVars

NextOverlay ==
    \/ OverlayInvoke
    \/ OverlayResume
    \/ OverlayDispose

SpecOverlay == InitOverlay /\ [][NextOverlay]_vars

LivePanels == {p \in 1..Len(oPanels) : oPanels[p].live}

\* C29: across showCurlOverlay invocations, overlapping at the await or
\* not, and panel disposals, at most one overlay panel is live and
\* curlPanel refers to it; a panel is created only when none is live; after
\* a disposal curlPanel is undefined, so the next invocation to resume
\* creates a fresh panel; and every created panel has exactly one
\* copy-message listener.
C29_OneLivePanel ==
    /\ [](/\ Cardinality(LivePanels) <= 1
          /\ LivePanels = (IF oPanel = NoPanel THEN {} ELSE {oPanel})
          /\ \A p \in 1..Len(oPanels) : oPanels[p].copyListeners = 1)
    /\ [][/\ Len(oPanels') > Len(oPanels) =>
                /\ LivePanels = {}
                /\ Len(oPanels') = Len(oPanels) + 1
                /\ oPanel' = Len(oPanels')
          /\ (\E p \in LivePanels : ~oPanels'[p].live) => oPanel' = NoPanel
          /\ (oPanel = NoPanel /\ oCalls' # oCalls /\ Len(oCalls') = Len(oCalls)) =>
                Len(oPanels') = Len(oPanels) + 1]_vars

\* Two invocations overlapped (the later one resumed while the earlier one
\* was still awaiting), the first panel was disposed and a fresh one is
\* live.
C29_Witness ==
    /\ Len(oPanels) = 2
    /\ ~oPanels[1].live
    /\ oPanels[2].live
    /\ oPanel = 2
    /\ \E i, j \in 1..Len(oCalls) : i < j /\ oCalls[i].pc = "awaiting" /\ oCalls[j].pc = "done"

\* ------------------------------------------------------------------------
\* buildGroupPrefixMap and the order of the declarations.

\* Every variable of text is bound by a single Group call.
BoundOnce(text) ==
    \A i, j \in 1..Len(text) : i # j => text[i].child # text[j].child

\* The variable v is reached from the declaration of cur by following the
\* bases of at most fuel declarations.
RECURSIVE BaseReaches(_, _, _, _)
BaseReaches(text, cur, v, fuel) ==
    /\ fuel > 0
    /\ \E i \in 1..Len(text) :
          /\ text[i].child = cur
          /\ \/ text[i].base = v
             \/ BaseReaches(text, text[i].base, v, fuel - 1)

\* No group is, directly or through other groups, made from itself.
Acyclic(text) ==
    \A i \in 1..Len(text) : ~BaseReaches(text, text[i].child, text[i].child, Len(text))

\* The declarations of text in the order p.
Reordered(text, p) == [i \in 1..Len(text) |-> text[p[i]]]

\* C30: for acyclic group definitions in which every variable is bound by
\* a single Group call, the map buildGroupPrefixMap returns is the same for
\* every textual order of the declarations, a child group declared before
\* its parent included.
C30_DeclarationOrderFree ==
    (gPc = "done" /\ BoundOnce(gText) /\ Acyclic(gText)) =>
        \A p \in Enumerations(Len(gText)) :
            buildGroupPrefixMap(Reordered(gText, p), gRoots) = gMap

\* The loop returned for a text declaring a child group before its parent,
\* and the child has the full prefix: the parent's prefix, then its own
\* segment.
C30_Witness ==
    /\ gPc = "done"
    /\ Len(gText) = 2
    /\ gText[1].base = gText[2].child
    /\ gText[1].child # gText[2].child
    /\ gText[2].base \in gRoots
    /\ gText[2].rel = <<"/", "a">>
    /\ gText[1].rel = <<"a">>
    /\ gMap[gText[1].child] = <<"/", "a", "/", "a">>

====
